---- MODULE Spec2Model ----
(***************************************************************************)
(* serial-task: createSerialTask / createSerialTaskAsync.                  *)
(*                                                                         *)
(* A produced callable runs the functions of a live, shared task list in   *)
(* index order, threading each result into the next task, with three       *)
(* hooks per index (resultWrapper, breakCondition, skipCondition).         *)
(*                                                                         *)
(* JavaScript values are records [t, n] so that values of different        *)
(* JavaScript types stay comparable.  Indices are 0-based as in the        *)
(* source; the task list is a TLA+ sequence, so tasks[i] of the source is  *)
(* list[i + 1] here.                                                       *)
(***************************************************************************)
EXTENDS Integers, Sequences, FiniteSets, TLC

VARIABLES opts, tasks, fn, inv, options

vars == <<opts, tasks, fn, inv, options>>

(***************************************************************************)
(* Bounds                                                                  *)
(***************************************************************************)
\* longest task list (initial lists and every append stay within it)
MaxTasks == 3
\* largest number used as a call argument
MaxArg == 1

(***************************************************************************)
(* JavaScript values                                                       *)
(***************************************************************************)
Undefined == [t |-> "undefined", n |-> 0]
NaN == [t |-> "NaN", n |-> 0]
Num(k) == [t |-> "number", n |-> k]
Bool(b) == [t |-> "boolean", n |-> IF b THEN 1 ELSE 0]
Err(k) == [t |-> "error", n |-> k]

\* a Request object of the handler-chain scenario: n encodes which marks
\* the request carries (the keys of its metadata, and whether it is a POST
\* without a body), one binary digit per mark
Mark ==
  [authenticated |-> 1, user123 |-> 2, admin |-> 4, rateLimited |-> 8,
   validated |-> 16, processed |-> 32, formatted |-> 64, postNoBody |-> 128]

Req(n) == [t |-> "request", n |-> n]

Has(n, m) == (n \div Mark[m]) % 2 = 1

With(n, m) == IF Has(n, m) THEN n ELSE n + Mark[m]

Without(n, m) == IF Has(n, m) THEN n - Mark[m] ELSE n

\* the Error objects thrown by a failing task and by failing hooks
ErrTask == Err(1)
ErrWrapper == Err(2)
ErrBreak == Err(3)
ErrSkip == Err(4)
\* the TypeError of reading a property of undefined
ErrUndefined == Err(5)

\* ToBoolean, as applied by `if (toBreak)` and `if (toSkip)`
Truthy(v) ==
  CASE v.t = "boolean" -> v.n = 1
    [] v.t = "number" -> v.n # 0
    [] v.t \in {"error", "thenable", "request"} -> TRUE
    [] OTHER -> FALSE

\* what a function call produced: it returned r (then = "no"), returned a
\* thenable that will fulfil with / reject with val, or threw val
Returned(v) == [how |-> "return", then |-> "no", native |-> FALSE, val |-> v]
Thrown(e) == [how |-> "throw", then |-> "no", native |-> FALSE, val |-> e]
ThenableOk(v) == [how |-> "return", then |-> "fulfils", native |-> TRUE, val |-> v]
ThenableErr(e) == [how |-> "return", then |-> "rejects", native |-> TRUE, val |-> e]

\* a Promise that is never settled
NeverSettles == [how |-> "return", then |-> "never", native |-> TRUE, val |-> Undefined]

\* an object that is not a Promise but has a callable `then`, which calls
\* back with v
ForeignThenable(v) == [how |-> "return", then |-> "fulfils", native |-> FALSE, val |-> v]

\* a function written in mode "plain" returns or throws; the same function
\* written as `async` (mode "future") returns a future of the same outcome;
\* in mode "thenable" it returns its value inside a foreign thenable; in
\* mode "never" it returns a Promise that stays pending
Deliver(mode, ok, v) ==
  CASE mode = "plain" -> (IF ok THEN Returned(v) ELSE Thrown(v))
    [] mode = "never" -> NeverSettles
    [] mode = "thenable" /\ ok -> ForeignThenable(v)
    [] OTHER -> (IF ok THEN ThenableOk(v) ELSE ThenableErr(v))

(***************************************************************************)
(* Tasks                                                                   *)
(***************************************************************************)
Ops == {"inc", "inc3", "dbl", "throw"}

\* the five handlers of the scenario, in the order of the chain
HandlerOps == <<"auth", "rate", "validate", "process", "format">>

\* a handler (req) => ({ ...req, metadata: { ...req.metadata, <marks> } })
\* applied to x: reading req.metadata throws when req is undefined, and a
\* req without metadata contributes none
HandlerBody(op, x) ==
  LET n == IF x.t = "request" THEN x.n ELSE 0 IN
  CASE x.t = "undefined" -> [ok |-> FALSE, val |-> ErrUndefined]
    [] op = "auth" ->
         [ok |-> TRUE,
          val |-> Req(With(With(Without(n, "admin"), "authenticated"), "user123"))]
    [] op = "rate" -> [ok |-> TRUE, val |-> Req(With(n, "rateLimited"))]
    [] op = "validate" ->
         IF Has(n, "postNoBody") THEN [ok |-> FALSE, val |-> ErrTask]
         ELSE [ok |-> TRUE, val |-> Req(With(n, "validated"))]
    [] op = "process" -> [ok |-> TRUE, val |-> Req(With(n, "processed"))]
    [] OTHER -> [ok |-> TRUE, val |-> Req(With(n, "formatted"))]
Modes == {"plain", "future"}
Task(op, mode) == [op |-> op, mode |-> mode]

\* the first declared parameter of a task called with the list `input`
FirstParam(input) == IF Len(input) >= 1 THEN input[1] ELSE Undefined

\* a list element that is no function: tasks.push(null)
NotAFunction == Task("null", "plain")

\* typeof task === 'function'
Callable(task) == task.op # "null"

\* x => x + 1, (a, b, c) => a + 1, x => x * 2, x => { throw new Error(...) },
\* and the handlers; task.apply on an element that is no function throws a
\* TypeError
TaskBody(task, input) ==
  LET x == FirstParam(input) IN
  CASE ~Callable(task) -> [ok |-> FALSE, val |-> ErrUndefined]
    [] task.op \in {"inc", "inc3"} ->
         [ok |-> TRUE, val |-> IF x.t = "number" THEN Num(x.n + 1) ELSE NaN]
    [] \E k \in DOMAIN HandlerOps : HandlerOps[k] = task.op -> HandlerBody(task.op, x)
    [] task.op = "dbl" -> [ok |-> TRUE, val |-> IF x.t = "number" THEN Num(x.n * 2) ELSE NaN]
    [] OTHER -> [ok |-> FALSE, val |-> ErrTask]

\* task.length: the number of parameters the function declares
Arity(task) == IF task.op = "inc3" THEN 3 ELSE 1

\* task.apply(null, input)
ApplyTask(task, input) ==
  LET b == TaskBody(task, input) IN Deliver(task.mode, b.ok, b.val)

(***************************************************************************)
(* Hooks.  A hook is called with (task, index, tasks, args, lastReturn)    *)
(* and may push onto the task list it is handed.  Each yields the pair     *)
(* [ok, val] of its body together with the list as it leaves it.           *)
(***************************************************************************)
WrapperKinds == {"default", "push", "throws"}
ConditionKinds == {"default", "index0", "index1", "index2", "last", "throws"}

\* faulty variant: the wrapper hands the call arguments to every task
DEFAULT_RESULT_WRAPPER_AlwaysArgs(index, args, lastReturn) == args

\* faulty variant: the first task always gets lastReturn, also at index 0
DEFAULT_RESULT_WRAPPER_AlwaysLast(index, args, lastReturn) == <<lastReturn>>

\* faulty variant: the call arguments are passed on until a task has
\* returned something
DEFAULT_RESULT_WRAPPER_ArgsUntilResult(index, args, lastReturn) ==
  IF index = 0 \/ lastReturn = Undefined THEN args ELSE <<lastReturn>>

\* DEFAULT_RESULT_WRAPPER: index === 0 ? args : [lastReturn]
DEFAULT_RESULT_WRAPPER(index, args, lastReturn) ==
  IF index = 0 THEN args ELSE <<lastReturn>>

\* DEFAULT_BREAKER (also DEFAULT_SKIPPER): () => false
DEFAULT_BREAKER == Bool(FALSE)

\* resultWrapper bodies: the default; the one of the dynamic-modification
\* test (pushes x => x * 2 when index === 0 and the list has one task);
\* one that throws at index 1; the one of the handler chain; one that pushes
\* x => x * 2 when index === 1, the call had no argument and the list has
\* two tasks
WrapperBody(kind, mode, index, list, args, lastReturn) ==
  CASE kind = "spread" ->
         [ok |-> TRUE,
          val |-> IF index = 0 THEN args ELSE Append(args, lastReturn),
          tasks |-> list]
    [] kind = "push" ->
         [ok |-> TRUE,
          val |-> DEFAULT_RESULT_WRAPPER(index, args, lastReturn),
          tasks |-> IF index = 0 /\ Len(list) = 1
                      THEN Append(list, Task("dbl", mode)) ELSE list]
    [] kind = "pushNoArgs" ->
         [ok |-> TRUE,
          val |-> DEFAULT_RESULT_WRAPPER(index, args, lastReturn),
          tasks |-> IF index = 1 /\ Len(args) = 0 /\ Len(list) = 2
                      THEN Append(list, Task("dbl", mode)) ELSE list]
    [] kind = "throws" /\ index = 1 ->
         [ok |-> FALSE, val |-> ErrWrapper, tasks |-> list]
    [] OTHER ->
         [ok |-> TRUE,
          val |-> DEFAULT_RESULT_WRAPPER(index, args, lastReturn),
          tasks |-> list]

\* breakCondition / skipCondition bodies: the default; index === 0;
\* index === 1; index === 2; lastReturn >= 2; one that throws at index 1
ConditionBody(kind, err, index, list, args, lastReturn) ==
  CASE kind = "index0" -> [ok |-> TRUE, val |-> Bool(index = 0), tasks |-> list]
    [] kind = "index1" -> [ok |-> TRUE, val |-> Bool(index = 1), tasks |-> list]
    [] kind = "index2" -> [ok |-> TRUE, val |-> Bool(index = 2), tasks |-> list]
    [] kind = "last" ->
         [ok |-> TRUE,
          val |-> Bool(lastReturn.t = "number" /\ lastReturn.n >= 2),
          tasks |-> list]
    [] kind = "throws" /\ index = 1 -> [ok |-> FALSE, val |-> err, tasks |-> list]
    [] kind = "unauthenticated" /\ index > 0 ->
         IF lastReturn.t = "undefined"
           THEN [ok |-> FALSE, val |-> ErrUndefined, tasks |-> list]
           ELSE [ok |-> TRUE,
                 val |-> Bool(~(lastReturn.t = "request"
                                 /\ Has(lastReturn.n, "authenticated"))),
                 tasks |-> list]
    [] kind = "admin" /\ index = 1 ->
         IF lastReturn.t = "undefined"
           THEN [ok |-> FALSE, val |-> ErrUndefined, tasks |-> list]
           ELSE [ok |-> TRUE,
                 val |-> Bool(lastReturn.t = "request" /\ Has(lastReturn.n, "admin")),
                 tasks |-> list]
    [] OTHER -> [ok |-> TRUE, val |-> DEFAULT_BREAKER, tasks |-> list]

\* the normalized options of a build: three hooks, and whether the hooks
\* are written as plain functions or as async ones
OptionsOf(rw, bc, sc, mode) ==
  [resultWrapper |-> rw, breakCondition |-> bc, skipCondition |-> sc, mode |-> mode]

(***************************************************************************)
(* The options object as the caller wrote it, and normalize.  A field is   *)
(* a record with the `typeof` class of its value; a field that is left out *)
(* reads as undefined.                                                     *)
(***************************************************************************)
DefaultName == "kskbTask"

Absent == "undefined"

RawName(type, text) == [type |-> type, text |-> text]

RawHook(type, kind) == [type |-> type, kind |-> kind]

RawItem(type, task) == [type |-> type, task |-> task]

RawTasks(type, items) == [type |-> type, items |-> items]

\* the options object: `type` tells what was passed as options, `mode` how
\* its hook functions are written
RawOptions(type, name, list, bc, sc, rw) ==
  [type |-> type, name |-> name, tasks |-> list, breakCondition |-> bc,
   skipCondition |-> sc, resultWrapper |-> rw, mode |-> "plain"]

\* the options object of a callable that exists already: nothing reads it
\* after the build
Dropped ==
  RawOptions("object", RawName(Absent, ""), RawTasks("array", <<>>),
             RawHook(Absent, "default"), RawHook(Absent, "default"),
             RawHook(Absent, "default"))

\* typeof x
TypeOf(x) == IF x.type \in {"null", "array"} THEN "object" ELSE x.type

\* faulty variant: a default also replaces null
OrDefault_NullToo(x, d) == IF x.type \in {"undefined", "null"} THEN d ELSE x

\* a destructuring default: `field = d` yields d when the field is
\* undefined, the field otherwise
OrDefault(x, d) == IF x.type = "undefined" THEN d ELSE x

\* tasks.some((task) => typeof task !== 'function')
SomeNotFunction(items) == \E k \in DOMAIN items : TypeOf(items[k]) # "function"

\* the error a refused build throws; NoError when the build went through
NoError == [type |-> "none", about |-> "none"]

\* new TypeError(`'<field>' must be ...`)
TypeError(field) == [type |-> "TypeError", about |-> field]

\* what normalize hands back: the error it threw (type "none" when it threw nothing)
\* and the five fields
Normalized(e, name, list, bc, sc, rw, mode) ==
  [error |-> e, name |-> name, tasks |-> list,
   opts |-> OptionsOf(rw, bc, sc, mode)]

Refusal(field) ==
  Normalized(TypeError(field), "", <<>>, "default", "default", "default", "plain")

\* faulty variant: tasks is checked before name
normalize_TasksFirst(o) ==
  LET name == OrDefault(o.name, RawName("string", DefaultName))
      bc == OrDefault(o.breakCondition, RawHook("function", "default"))
      sc == OrDefault(o.skipCondition, RawHook("function", "default"))
      rw == OrDefault(o.resultWrapper, RawHook("function", "default"))
  IN CASE TypeOf(o) # "object" \/ o.type = "null" -> Refusal("options")
       [] o.tasks.type # "array" \/ SomeNotFunction(o.tasks.items) -> Refusal("tasks")
       [] TypeOf(name) # "string" -> Refusal("name")
       [] TypeOf(bc) # "function" -> Refusal("breakCondition")
       [] TypeOf(sc) # "function" -> Refusal("skipCondition")
       [] TypeOf(rw) # "function" -> Refusal("resultWrapper")
       [] OTHER ->
            Normalized(NoError, name.text,
                       [k \in DOMAIN o.tasks.items |-> o.tasks.items[k].task],
                       bc.kind, sc.kind, rw.kind, o.mode)

\* normalize(options): the checks in the order of the source, each with
\* its own TypeError, then the five fields with the defaults filled in
normalize(o) ==
  LET name == OrDefault(o.name, RawName("string", DefaultName))
      bc == OrDefault(o.breakCondition, RawHook("function", "default"))
      sc == OrDefault(o.skipCondition, RawHook("function", "default"))
      rw == OrDefault(o.resultWrapper, RawHook("function", "default"))
  IN CASE TypeOf(o) # "object" \/ o.type = "null" -> Refusal("options")
       [] TypeOf(name) # "string" -> Refusal("name")
       [] o.tasks.type # "array" \/ SomeNotFunction(o.tasks.items) -> Refusal("tasks")
       [] TypeOf(bc) # "function" -> Refusal("breakCondition")
       [] TypeOf(sc) # "function" -> Refusal("skipCondition")
       [] TypeOf(rw) # "function" -> Refusal("resultWrapper")
       [] OTHER ->
            Normalized(NoError, name.text,
                       [k \in DOMAIN o.tasks.items |-> o.tasks.items[k].task],
                       bc.kind, sc.kind, rw.kind, o.mode)

(***************************************************************************)
(* Futures                                                                 *)
(***************************************************************************)
\* isThenable(r): r exposes a callable `then`
isThenable(r) == r.then # "no"

\* the value of a returned object that is used without being awaited
Unawaited == [t |-> "thenable", n |-> 0]

PromiseResolve(v) == [then |-> "fulfils", val |-> v]
PromiseReject(e) == [then |-> "rejects", val |-> e]

\* PromiseTry / PromiseTrapply: call fn inside try/catch; a thenable result
\* is returned as it is, any other result is wrapped by PromiseResolve, a
\* synchronous throw becomes PromiseReject
PromiseTry(r) ==
  IF r.how = "throw" THEN PromiseReject(r.val)
  ELSE IF isThenable(r) THEN [then |-> r.then, val |-> r.val]
  ELSE PromiseResolve(r.val)

\* `await p`: the settled value, or the rejection raised at the await
Await(p) == [ok |-> p.then = "fulfils", val |-> p.val]

\* a direct call `f(...)` of the sync engine: the returned value is used as
\* it is (a returned thenable is just an object), a throw propagates
DirectCall(r) ==
  IF r.how = "throw" THEN [ok |-> FALSE, val |-> r.val]
  ELSE IF isThenable(r) THEN [ok |-> TRUE, val |-> Unawaited]
  ELSE [ok |-> TRUE, val |-> r.val]

(***************************************************************************)
(* The produced callable and one invocation of it                          *)
(***************************************************************************)
Callables == {"sync", "async"}

\* `results`: a sparse array, its length and the indices that hold a value
NewArray(len) == [length |-> len, at |-> [j \in {} |-> Undefined]]

\* faulty variant: a value stored past the end does not extend the array
SetSlot_FixedLength(results, i, v) ==
  IF i < results.length
    THEN [length |-> results.length,
          at |-> [j \in DOMAIN results.at \cup {i} |->
                    IF j = i THEN v ELSE results.at[j]]]
    ELSE results

\* results[i] = v
SetSlot(results, i, v) ==
  [length |-> IF i + 1 > results.length THEN i + 1 ELSE results.length,
   at |-> [j \in (DOMAIN results.at) \cup {i} |-> IF j = i THEN v ELSE results.at[j]]]

\* how a call of the produced callable ended, as its caller sees it:
\* "returned" a record, "raised" an error, or handed back a future that is
\* "fulfilled" with a record or "rejected" with an error
Outcome(channel, error, value, results, trivial, breakAt, skipped) ==
  [channel |-> channel, error |-> error, value |-> value, results |-> results,
   trivial |-> trivial, breakAt |-> breakAt, skipped |-> skipped]

NoOutcome == Outcome("none", Undefined, Undefined, NewArray(0), FALSE, -1, <<>>)

\* the constant record of the empty-list callable
TrivialReturn == Outcome("returned", Undefined, Undefined, NewArray(0), TRUE, -1, <<>>)

\* no invocation in this slot
Idle ==
  [pc |-> "idle", awaiting |-> FALSE, args |-> <<>>, i |-> 0,
   task |-> Task("inc", "plain"), input |-> <<>>, last |-> Undefined,
   results |-> NewArray(0), breakAt |-> -1, skipped |-> <<>>,
   pending |-> PromiseResolve(Undefined), out |-> NoOutcome,
   log |-> <<>>, tasks0 |-> <<>>, open |-> 0, after |-> FALSE]

\* faulty variant: results starts as [] instead of new Array(tasks.length)
Enter_EmptyResults(args, list) ==
  [Idle EXCEPT !.pc = "test", !.args = args, !.tasks0 = list]

\* the locals of fn at its entry: last, results, breakAt, skipped, i = 0
\* (log: the calls made so far; tasks0: the list as it was at the call;
\* open: the calls started whose result has not settled yet; after: this
\* call followed one that returned a record with a skipped index)
Enter(args, list) ==
  [Idle EXCEPT !.pc = "test", !.args = args, !.results = NewArray(Len(list)),
               !.tasks0 = list]

\* one entry of the call log: which function was called, at which index,
\* for which task (the task handed to a hook, or the task called), with
\* which argument list and which lastReturn; whether its body ended
\* normally, with which value (ret; list for the argument list a wrapper
\* yields), and how the call handed it over (Deliver)
Event(f, i, task, args, last, ok, ret, list, how) ==
  [f |-> f, i |-> i, task |-> task, args |-> args, last |-> last,
   ok |-> ok, ret |-> ret, list |-> list, how |-> how]

\* a call as seen apart from the way its result is handed over
Sight(e) ==
  [f |-> e.f, i |-> e.i, args |-> e.args, last |-> e.last,
   ok |-> e.ok, ret |-> e.ret, list |-> e.list]

\* faulty variant: the loop bound is the list length at the entry of fn
LoopTest_LengthAtEntry(st) ==
  IF st.inv.i < Len(st.inv.tasks0)
    THEN [st EXCEPT !.inv.task = st.tasks[st.inv.i + 1], !.inv.pc = "wrap"]
    ELSE [st EXCEPT !.inv.pc = "return"]

\* faulty variant: the loop goes one index beyond the list, where tasks[i]
\* is undefined and calling it fails
LoopTest_OneTooMany(st) ==
  IF st.inv.i <= Len(st.tasks)
    THEN [st EXCEPT !.inv.task = IF st.inv.i < Len(st.tasks)
                                   THEN st.tasks[st.inv.i + 1]
                                   ELSE Task("throw", "plain"),
                    !.inv.pc = "wrap"]
    ELSE [st EXCEPT !.inv.pc = "return"]

\* the loop test `i < tasks.length` and `const task = tasks[i]`
LoopTest(st) ==
  IF st.inv.i < Len(st.tasks)
    THEN [st EXCEPT !.inv.task = st.tasks[st.inv.i + 1], !.inv.pc = "wrap"]
    ELSE [st EXCEPT !.inv.pc = "return"]

\* the call made at position pc: a hook with (task, i, tasks, args, last),
\* or the task with the wrapped input
Invoke(o, st) ==
  LET v == st.inv
      b == CASE v.pc = "wrap" ->
                  WrapperBody(o.resultWrapper, o.mode, v.i, st.tasks, v.args, v.last)
             [] v.pc = "break" ->
                  ConditionBody(o.breakCondition, ErrBreak, v.i, st.tasks, v.args, v.last)
             [] v.pc = "skip" ->
                  ConditionBody(o.skipCondition, ErrSkip, v.i, st.tasks, v.args, v.last)
             [] OTHER ->
                  LET t == TaskBody(v.task, v.input)
                  IN [ok |-> t.ok, val |-> t.val, tasks |-> st.tasks]
      mode == IF v.pc = "task" THEN v.task.mode ELSE o.mode
      r == Deliver(mode, b.ok, b.val)
      ev == Event(v.pc, v.i, v.task,
                  IF v.pc = "task" THEN v.input ELSE v.args, v.last,
                  b.ok, IF v.pc = "wrap" /\ b.ok THEN Undefined ELSE b.val,
                  IF v.pc = "wrap" /\ b.ok THEN b.val ELSE <<>>,
                  IF r.how = "throw" THEN "throw"
                  ELSE IF isThenable(r) THEN r.then ELSE "return")
  IN [r |-> r,
      st |-> [inv |-> [v EXCEPT !.log = Append(v.log, ev), !.open = v.open + 1],
              tasks |-> b.tasks]]

\* a call whose result r is used as it is: the call is over unless r is a
\* future, which stays outstanding
Used(r, st) == IF isThenable(r) THEN st ELSE [st EXCEPT !.inv.open = st.inv.open - 1]

\* faulty variant: the failure is thrown at the caller by both engines
Fail_Raises(c, e, st) ==
  [st EXCEPT !.inv.pc = "done",
             !.inv.out = Outcome("raised", e, Undefined, NewArray(0), FALSE, -1, <<>>)]

\* faulty variant: on a failure the list is put back as it was when fn
\* was called
Fail_RollsBack(c, e, st) ==
  [st EXCEPT !.inv.pc = "done",
             !.inv.out = Outcome(IF c = "sync" THEN "raised" ELSE "rejected",
                                 e, Undefined, NewArray(0), FALSE, -1, <<>>),
             !.tasks = st.inv.tasks0]

\* the failure leaves fn: thrown by the sync fn, rejection of the future of
\* the async fn
Fail(c, e, st) ==
  [st EXCEPT !.inv.pc = "done",
             !.inv.out = Outcome(IF c = "sync" THEN "raised" ELSE "rejected",
                                 e, Undefined, NewArray(0), FALSE, -1, <<>>)]

\* return { value: last, results, trivial: false, breakAt, skipped }
Return(c, st) ==
  [st EXCEPT !.inv.pc = "done",
             !.inv.out = Outcome(IF c = "sync" THEN "returned" ELSE "fulfilled",
                                 Undefined, st.inv.last, st.inv.results, FALSE,
                                 st.inv.breakAt, st.inv.skipped)]

\* faulty variant: a true breakCondition records breakAt but does not leave
\* the loop
AfterBreak_FallsThrough(toBreak, st) ==
  IF Truthy(toBreak)
    THEN [st EXCEPT !.inv.breakAt = st.inv.i, !.inv.pc = "skip"]
    ELSE [st EXCEPT !.inv.pc = "skip"]

\* faulty variant: a true breakCondition leaves the loop without recording
\* the index
AfterBreak_ForgetsIndex(toBreak, st) ==
  IF Truthy(toBreak)
    THEN [st EXCEPT !.inv.pc = "return"]
    ELSE [st EXCEPT !.inv.pc = "skip"]

\* if (toBreak) { breakAt = i; break; }
AfterBreak(toBreak, st) ==
  IF Truthy(toBreak)
    THEN [st EXCEPT !.inv.breakAt = st.inv.i, !.inv.pc = "return"]
    ELSE [st EXCEPT !.inv.pc = "skip"]

\* faulty variant: a skip also resets `last`
AfterSkip_ClearsLast(toSkip, st) ==
  IF Truthy(toSkip)
    THEN [st EXCEPT !.inv.skipped = Append(st.inv.skipped, st.inv.i),
                    !.inv.last = Undefined,
                    !.inv.i = st.inv.i + 1, !.inv.pc = "test"]
    ELSE [st EXCEPT !.inv.pc = "task"]

\* faulty variant: a skip also passes over the index that follows
AfterSkip_JumpsAhead(toSkip, st) ==
  IF Truthy(toSkip)
    THEN [st EXCEPT !.inv.skipped = Append(st.inv.skipped, st.inv.i),
                    !.inv.i = st.inv.i + 2, !.inv.pc = "test"]
    ELSE [st EXCEPT !.inv.pc = "task"]

\* faulty variant: a skipped index is recorded but its task is called all
\* the same
AfterSkip_StillRuns(toSkip, st) ==
  IF Truthy(toSkip)
    THEN [st EXCEPT !.inv.skipped = Append(st.inv.skipped, st.inv.i),
                    !.inv.pc = "task"]
    ELSE [st EXCEPT !.inv.pc = "task"]

\* if (toSkip) { skipped.push(i); continue; }
AfterSkip(toSkip, st) ==
  IF Truthy(toSkip)
    THEN [st EXCEPT !.inv.skipped = Append(st.inv.skipped, st.inv.i),
                    !.inv.i = st.inv.i + 1, !.inv.pc = "test"]
    ELSE [st EXCEPT !.inv.pc = "task"]

\* faulty variant: the result of the task is stored in results but `last`
\* is left as it was
AfterTask_LastNotUpdated(r, st) ==
  [st EXCEPT !.inv.results = SetSlot(st.inv.results, st.inv.i, r),
             !.inv.i = st.inv.i + 1, !.inv.pc = "test"]

\* faulty variant: `last` is updated but the result is not stored in
\* results
AfterTask_ResultNotStored(r, st) ==
  [st EXCEPT !.inv.last = r,
             !.inv.i = st.inv.i + 1, !.inv.pc = "test"]

\* last = <result of the task>; results[i] = last; then i++
AfterTask(r, st) ==
  [st EXCEPT !.inv.last = r,
             !.inv.results = SetSlot(st.inv.results, st.inv.i, r),
             !.inv.i = st.inv.i + 1, !.inv.pc = "test"]

\* faulty variant: after the first index the task is applied to `last`
\* whatever resultWrapper returned
Proceed_InputIsLast(val, st) ==
  CASE st.inv.pc = "wrap" ->
         [st EXCEPT !.inv.input = IF st.inv.i = 0 THEN val ELSE <<st.inv.last>>,
                    !.inv.pc = "break"]
    [] st.inv.pc = "break" -> AfterBreak(val, st)
    [] st.inv.pc = "skip" -> AfterSkip(val, st)
    [] OTHER -> AfterTask(val, st)

\* faulty variant: the argument list handed to the hooks is overwritten
\* with the input of the task
Proceed_ArgsBecomeInput(val, st) ==
  CASE st.inv.pc = "wrap" ->
         [st EXCEPT !.inv.input = val, !.inv.args = val, !.inv.pc = "break"]
    [] st.inv.pc = "break" -> AfterBreak(val, st)
    [] st.inv.pc = "skip" -> AfterSkip(val, st)
    [] OTHER -> AfterTask(val, st)

\* what the loop body does with the value of the call made at pc
Proceed(val, st) ==
  CASE st.inv.pc = "wrap" -> [st EXCEPT !.inv.input = val, !.inv.pc = "break"]
    [] st.inv.pc = "break" -> AfterBreak(val, st)
    [] st.inv.pc = "skip" -> AfterSkip(val, st)
    [] OTHER -> AfterTask(val, st)

\* faulty variant: a failure is caught and used as the value of the call
Continue_SwallowsFailure(c, x, st) ==
  Proceed(IF ~x.ok /\ st.inv.pc = "wrap" THEN <<x.val>> ELSE x.val, st)

\* the call made at pc has ended with x: a failure leaves fn at once, a
\* value goes on through the loop body
Continue(c, x, st) ==
  IF ~x.ok THEN Fail(c, x.val, st) ELSE Proceed(x.val, st)

\* faulty variant: the async engine uses the results of breakCondition and
\* skipCondition without awaiting them
Step_ConditionsNotAwaited(c, o, st) ==
  CASE st.inv.pc = "test" -> LoopTest(st)
    [] st.inv.pc = "return" -> Return(c, st)
    [] OTHER ->
         LET k == Invoke(o, st) IN
         IF c = "sync" \/ st.inv.pc \in {"break", "skip"}
           THEN Continue(c, DirectCall(k.r), Used(k.r, k.st))
           ELSE [k.st EXCEPT !.inv.awaiting = TRUE, !.inv.pending = PromiseTry(k.r)]

\* faulty variant: the async engine stores the result of a task without
\* awaiting it
Step_TaskNotAwaited(c, o, st) ==
  CASE st.inv.pc = "test" -> LoopTest(st)
    [] st.inv.pc = "return" -> Return(c, st)
    [] OTHER ->
         LET k == Invoke(o, st) IN
         IF c = "sync" \/ st.inv.pc = "task"
           THEN Continue(c, DirectCall(k.r), Used(k.r, k.st))
           ELSE [k.st EXCEPT !.inv.awaiting = TRUE, !.inv.pending = PromiseTry(k.r)]

\* faulty variant: the task is read from the list again when it is called,
\* PromiseTrapply(tasks[i], null, input)
Step_RereadsTask(c, o, st) ==
  CASE st.inv.pc = "test" -> LoopTest(st)
    [] st.inv.pc = "return" -> Return(c, st)
    [] OTHER ->
         LET now == IF st.inv.pc # "task" THEN st
                    ELSE [st EXCEPT !.inv.task = IF st.inv.i < Len(st.tasks)
                                                   THEN st.tasks[st.inv.i + 1]
                                                   ELSE NotAFunction]
             k == Invoke(o, now)
         IN IF c = "sync"
              THEN Continue(c, DirectCall(k.r), Used(k.r, k.st))
              ELSE [k.st EXCEPT !.inv.awaiting = TRUE, !.inv.pending = PromiseTry(k.r)]

\* one step of fn: the sync engine uses the result of a call directly, the
\* async engine parks on `await PromiseTry(...)`
Step(c, o, st) ==
  CASE st.inv.pc = "test" -> LoopTest(st)
    [] st.inv.pc = "return" -> Return(c, st)
    [] OTHER ->
         LET k == Invoke(o, st) IN
         IF c = "sync"
           THEN Continue(c, DirectCall(k.r), Used(k.r, k.st))
           ELSE [k.st EXCEPT !.inv.awaiting = TRUE, !.inv.pending = PromiseTry(k.r)]

\* fn runs until it is done or suspended at an await (the state after a
\* step is a bound variable, so that it is worked out once)
RECURSIVE Run(_, _, _)
Run(c, o, st) ==
  IF st.inv.pc = "done" \/ st.inv.awaiting THEN st
  ELSE CHOOSE r \in {Run(c, o, x) : x \in {Step(c, o, st)}} : TRUE

\* the awaited future has settled: fn resumes after the await
Wake(c, o, st) ==
  CHOOSE r \in {Run(c, o, x) :
                  x \in {Continue(c, Await(st.inv.pending),
                                  [st EXCEPT !.inv.awaiting = FALSE,
                                             !.inv.open = st.inv.open - 1])}} : TRUE

\* faulty variants: no empty-list fast path
createSerialTask_NoFastPath(list) == "loop"

createSerialTaskAsync_NoFastPath(list) == "loop"

\* createSerialTask / createSerialTaskAsync: the empty-list callable when
\* tasks.length === 0 at the build, the looping callable otherwise
createSerialTask(list) == IF Len(list) = 0 THEN "trivial" ELSE "loop"

createSerialTaskAsync(list) == IF Len(list) = 0 THEN "trivial" ELSE "loop"

\* faulty variant: the length is taken from the task that is last in the list
FnLength_LastTask(list) == IF list = <<>> THEN 0 ELSE Arity(list[Len(list)])

\* fn.length: 0 for the arrow function of the empty-list path, and
\* defineProperty(fn, 'length', { value: tasks[0].length }) otherwise
FnLength(list) == IF list = <<>> THEN 0 ELSE Arity(list[1])

\* faulty variant: the empty-list callable keeps the name of its variable
FnName_LoopOnly(name, list) == IF list = <<>> THEN "fn" ELSE name

\* fn.name: defineProperty(fn, 'name', { value: name }) on both paths
FnName(name, list) == name

\* the callable produced under a name: which of the two function bodies it
\* is, its name and its length (builtEmpty records whether the list was
\* empty at the build)
BuiltAs(c, name, list) ==
  [kind |-> IF c = "sync" THEN createSerialTask(list) ELSE createSerialTaskAsync(list),
   builtEmpty |-> list = <<>>,
   name |-> FnName(name, list), length |-> FnLength(list), error |-> NoError]

\* the callable produced when no name is configured
Built(c, list) == BuiltAs(c, DefaultName, list)

NotBuilt ==
  [kind |-> "none", builtEmpty |-> FALSE, name |-> "", length |-> 0, error |-> NoError]

\* createSerialTask(options) threw e and produced nothing
Refused(e) == [NotBuilt EXCEPT !.error = e]

\* faulty variant: emptiness of the list is looked at on every call
Invocation_EmptinessPerCall(c, kind, o, args, list) ==
  IF Len(list) = 0
    THEN [inv |-> [Idle EXCEPT !.pc = "done", !.args = args, !.tasks0 = list,
                               !.out = TrivialReturn],
          tasks |-> list]
    ELSE Run(c, o, [inv |-> Enter(args, list), tasks |-> list])

\* one call fn(...args) up to its return or its first await: the empty-list
\* callable returns its constant record, the looping one enters the loop
Invocation(c, kind, o, args, list) ==
  IF kind = "trivial"
    THEN [inv |-> [Idle EXCEPT !.pc = "done", !.args = args, !.tasks0 = list,
                               !.out = TrivialReturn],
          tasks |-> list]
    ELSE Run(c, o, [inv |-> Enter(args, list), tasks |-> list])

(***************************************************************************)
(* Inputs                                                                  *)
(***************************************************************************)
\* sequences over S of length at most n
RECURSIVE SeqsUpTo(_, _)
SeqsUpTo(S, n) ==
  IF n = 0 THEN {<<>>}
  ELSE LET shorter == SeqsUpTo(S, n - 1)
       IN shorter \cup {Append(q, x) : q \in {r \in shorter : Len(r) = n - 1}, x \in S}

\* the tasks a caller puts in the list: the sync engine takes ordinary
\* functions only, the async engine takes both kinds
TaskSet(c) ==
  IF c = "sync"
    THEN {Task("inc", "plain"), Task("dbl", "plain"), Task("throw", "plain")}
    ELSE {Task("inc", "plain"), Task("dbl", "thenable"),
          Task("throw", "plain"), Task("throw", "future")}

\* the hook combinations a caller configures
OptsSet(c) ==
  {o \in [resultWrapper : WrapperKinds, breakCondition : ConditionKinds,
          skipCondition : ConditionKinds,
          mode : IF c = "sync" THEN {"plain"} ELSE Modes] :
     \/ o.resultWrapper = "default"
     \/ o.breakCondition = "default"
     \/ o.skipCondition = "default"}

\* the argument lists of a call
ArgLists == {<<>>} \cup {<<Num(a)>> : a \in 1..MaxArg}

DefaultOptions == OptionsOf("default", "default", "default", "plain")

(***************************************************************************)
(* The program: one produced callable over a caller-owned task list        *)
(***************************************************************************)
\* after createSerialTask(opts) or createSerialTaskAsync(opts)
Init ==
  \E e \in Callables :
    \E o \in OptsSet(e), l \in SeqsUpTo(TaskSet(e), MaxTasks) :
      /\ opts = [c \in Callables |-> IF c = e THEN o ELSE DefaultOptions]
      /\ tasks = [c \in Callables |-> IF c = e THEN l ELSE <<>>]
      /\ fn = [c \in Callables |-> IF c = e THEN Built(e, l) ELSE NotBuilt]
      /\ inv = [s \in {<<e, 1>>} |-> Idle]
      /\ options = Dropped

\* faulty variant: skipped is declared outside fn and never emptied, so a
\* call goes on from the indices the call before it has skipped
Call_KeepsSkipped(s, args) ==
  LET c == s[1]
      st == Invocation(c, fn[c].kind, opts[c], args, tasks[c])
      old == inv[s].out.skipped
  IN /\ fn[c].kind # "none"
     /\ inv[s].pc \in {"idle", "done"}
     /\ inv' = [inv EXCEPT ![s] =
                 [st.inv EXCEPT !.after = old # <<>>,
                                !.skipped = old \o @,
                                !.out.skipped = IF st.inv.out.channel = "returned"
                                                   /\ ~st.inv.out.trivial
                                                  THEN old \o @ ELSE @]]
     /\ tasks' = [tasks EXCEPT ![c] = st.tasks]
     /\ UNCHANGED <<opts, fn, options>>

\* faulty variant: last, results, breakAt and skipped are declared outside
\* fn, so the entry of one call resets them for every call in flight
Call_SharedLocals(s, args) ==
  LET c == s[1]
      st == Invocation(c, fn[c].kind, opts[c], args, tasks[c])
  IN /\ fn[c].kind # "none"
     /\ inv[s].pc \in {"idle", "done"}
     /\ inv' = [t \in DOMAIN inv |->
                 IF t = s THEN st.inv
                 ELSE IF inv[t].awaiting
                   THEN [inv[t] EXCEPT !.last = Undefined, !.breakAt = -1,
                                       !.skipped = <<>>,
                                       !.results = NewArray(Len(tasks[c]))]
                   ELSE inv[t]]
     /\ tasks' = [tasks EXCEPT ![c] = st.tasks]
     /\ UNCHANGED <<opts, fn, options>>

\* faulty variant: fn works on a copy of the list, so that what its hooks
\* append is lost when it returns
Call_OverCopy(s, args) ==
  LET c == s[1]
      st == Invocation(c, fn[c].kind, opts[c], args, tasks[c])
  IN /\ fn[c].kind # "none"
     /\ inv[s].pc \in {"idle", "done"}
     /\ inv' = [inv EXCEPT ![s] = [st.inv EXCEPT !.after = inv[s].out.skipped # <<>>]]
     /\ UNCHANGED <<opts, tasks, fn, options>>

\* the caller calls the produced callable: fn(...args)
Call(s, args) ==
  LET c == s[1]
      st == Invocation(c, fn[c].kind, opts[c], args, tasks[c])
  IN /\ fn[c].kind # "none"
     /\ inv[s].pc \in {"idle", "done"}
     /\ inv' = [inv EXCEPT ![s] = [st.inv EXCEPT !.after = inv[s].out.skipped # <<>>]]
     /\ tasks' = [tasks EXCEPT ![c] = st.tasks]
     /\ UNCHANGED <<opts, fn, options>>

\* the future an async invocation awaits settles and the invocation resumes
Resume(s) ==
  LET c == s[1]
      st == Wake(c, opts[c], [inv |-> inv[s], tasks |-> tasks[c]])
  IN /\ inv[s].awaiting
     /\ inv[s].pending.then # "never"
     /\ inv' = [inv EXCEPT ![s] = st.inv]
     /\ tasks' = [tasks EXCEPT ![c] = st.tasks]
     /\ UNCHANGED <<opts, fn, options>>

\* between calls: no invocation of callable c is suspended
Quiet(c) == \A s \in DOMAIN inv : s[1] = c => ~inv[s].awaiting

\* the caller has taken the delivered records before it goes on
Taken == [s \in DOMAIN inv |-> IF inv[s].pc = "done" THEN Idle ELSE inv[s]]

\* code holding the list pushes a task onto it
ExternalPush(c, t) ==
  /\ fn[c].kind # "none"
  /\ Quiet(c)
  /\ Len(tasks[c]) < MaxTasks
  /\ tasks' = [tasks EXCEPT ![c] = Append(tasks[c], t)]
  /\ inv' = Taken
  /\ UNCHANGED <<opts, fn, options>>

\* code holding the list empties it: tasks.length = 0
ExternalClear(c) ==
  /\ fn[c].kind # "none"
  /\ Quiet(c)
  /\ tasks[c] # <<>>
  /\ tasks' = [tasks EXCEPT ![c] = <<>>]
  /\ inv' = Taken
  /\ UNCHANGED <<opts, fn, options>>

\* the caller builds a callable again from the same options object
Rebuild(c) ==
  /\ fn[c].kind # "none"
  /\ Quiet(c)
  /\ fn' = [fn EXCEPT ![c] = BuiltAs(c, fn[c].name, tasks[c])]
  /\ inv' = Taken
  /\ UNCHANGED <<opts, tasks, options>>

Next ==
  \/ \E s \in DOMAIN inv, args \in ArgLists : Call(s, args)
  \/ \E s \in DOMAIN inv : Resume(s)
  \/ \E c \in Callables : \E t \in TaskSet(c) : ExternalPush(c, t)
  \/ \E c \in Callables : ExternalClear(c)
  \/ \E c \in Callables : Rebuild(c)

Spec == Init /\ [][Next]_vars

(***************************************************************************)
(* The same options built with both engines: the sync callable over the    *)
(* ordinary-function form of the tasks and hooks, the async callable over  *)
(* the tasks and hooks as given, each with its own list, called with the   *)
(* same arguments.                                                         *)
(***************************************************************************)
\* the ordinary-function form of a task list and of the hooks
PlainList(list) == [k \in DOMAIN list |-> Task(list[k].op, "plain")]

PlainOptions(o) == [o EXCEPT !.mode = "plain"]

InitEq ==
  \E o \in OptsSet("async"), l \in SeqsUpTo(TaskSet("async"), MaxTasks) :
    /\ opts = [c \in Callables |-> IF c = "sync" THEN PlainOptions(o) ELSE o]
    /\ tasks = [c \in Callables |-> IF c = "sync" THEN PlainList(l) ELSE l]
    /\ fn = [c \in Callables |-> Built(c, IF c = "sync" THEN PlainList(l) ELSE l)]
    /\ inv = [s \in {<<"sync", 1>>, <<"async", 1>>} |-> Idle]
    /\ options = Dropped

\* r = f(...args); p = g(...args)
CallBoth(args) ==
  LET stS == Invocation("sync", fn["sync"].kind, opts["sync"], args, tasks["sync"])
      stA == Invocation("async", fn["async"].kind, opts["async"], args, tasks["async"])
  IN /\ \A s \in DOMAIN inv : inv[s].pc \in {"idle", "done"}
     /\ inv' = [s \in DOMAIN inv |-> IF s[1] = "sync" THEN stS.inv ELSE stA.inv]
     /\ tasks' = [c \in Callables |-> IF c = "sync" THEN stS.tasks ELSE stA.tasks]
     /\ UNCHANGED <<opts, fn, options>>

NextEq ==
  \/ \E args \in ArgLists : CallBoth(args)
  \/ \E s \in DOMAIN inv : Resume(s)

SpecEq == InitEq /\ [][NextEq]_vars

(***************************************************************************)
(* One async callable called again while earlier calls of it are still     *)
(* suspended: p1 = g(...a1); p2 = g(...a2); the invocations take turns at   *)
(* their awaits and share the one task list.                               *)
(***************************************************************************)
\* the tasks and the hooks (written as async functions) of these builds
ConcTasks == {Task("inc", "plain"), Task("dbl", "thenable"), Task("throw", "future")}

ConcOptions ==
  {o \in OptsSet("async") :
     /\ o.mode = "future"
     /\ o.resultWrapper \in {"default", "push"}
     /\ o.breakCondition \in {"default", "index1"}
     /\ o.skipCondition \in {"default", "index1", "last"}}

InitConc ==
  \E o \in ConcOptions, l \in SeqsUpTo(ConcTasks, MaxTasks - 1) :
    /\ opts = [c \in Callables |-> IF c = "async" THEN o ELSE DefaultOptions]
    /\ tasks = [c \in Callables |-> IF c = "async" THEN l ELSE <<>>]
    /\ fn = [c \in Callables |-> IF c = "async" THEN Built(c, l) ELSE NotBuilt]
    /\ inv = [s \in {<<"async", 1>>, <<"async", 2>>} |-> Idle]
    /\ options = Dropped

NextConc ==
  \/ \E s \in DOMAIN inv, args \in ArgLists : Call(s, args)
  \/ \E s \in DOMAIN inv : Resume(s)

SpecConc == InitConc /\ [][NextConc]_vars

(***************************************************************************)
(* Overlapping calls of one async callable whose resultWrapper appends a   *)
(* task for some calls only (those made without an argument).              *)
(***************************************************************************)
SharedOptions ==
  {OptionsOf("pushNoArgs", "default", sc, "future") : sc \in {"default", "index1"}}

InitShared ==
  \E o \in SharedOptions, l \in SeqsUpTo(ConcTasks, MaxTasks - 1) :
    /\ opts = [c \in Callables |-> IF c = "async" THEN o ELSE DefaultOptions]
    /\ tasks = [c \in Callables |-> IF c = "async" THEN l ELSE <<>>]
    /\ fn = [c \in Callables |-> IF c = "async" THEN Built(c, l) ELSE NotBuilt]
    /\ inv = [s \in {<<"async", 1>>, <<"async", 2>>} |-> Idle]
    /\ options = Dropped

SpecShared == InitShared /\ [][NextConc]_vars

(***************************************************************************)
(* Code that holds the task array pushes whatever it likes onto it after   *)
(* the build has accepted the list.                                        *)
(***************************************************************************)
InitUnchecked ==
  \E e \in Callables, sc \in {"default", "index1"} :
    \E l \in SeqsUpTo(TaskSet(e), MaxTasks - 1) :
      /\ ~SomeNotFunction([k \in DOMAIN l |-> RawItem("function", l[k])])
      /\ opts = [c \in Callables |->
                   IF c = e THEN OptionsOf("default", "default", sc, "plain")
                   ELSE DefaultOptions]
      /\ tasks = [c \in Callables |-> IF c = e THEN l ELSE <<>>]
      /\ fn = [c \in Callables |-> IF c = e THEN Built(e, l) ELSE NotBuilt]
      /\ inv = [s \in {<<e, 1>>} |-> Idle]
      /\ options = Dropped

\* tasks.push(x), x a function or not
PushAnything(c, x) ==
  /\ fn[c].kind # "none"
  /\ Quiet(c)
  /\ Len(tasks[c]) < MaxTasks
  /\ tasks' = [tasks EXCEPT ![c] = Append(tasks[c], x)]
  /\ inv' = Taken
  /\ UNCHANGED <<opts, fn, options>>

NextUnchecked ==
  \/ \E s \in DOMAIN inv, args \in ArgLists : Call(s, args)
  \/ \E s \in DOMAIN inv : Resume(s)
  \/ \E c \in Callables : \E x \in TaskSet(c) \cup {NotAFunction} : PushAnything(c, x)

SpecUnchecked == InitUnchecked /\ [][NextUnchecked]_vars

(***************************************************************************)
(* Code that holds the task array replaces or removes elements while an    *)
(* invocation of the async callable is suspended on one of its hooks.      *)
(***************************************************************************)
SwapTasks == {Task("inc", "plain"), Task("dbl", "thenable"), Task("throw", "plain")}

InitSwap ==
  \E sc \in {"default", "index1"}, l \in SeqsUpTo(SwapTasks, MaxTasks - 1) :
    /\ opts = [c \in Callables |->
                 IF c = "async" THEN OptionsOf("default", "default", sc, "future")
                 ELSE DefaultOptions]
    /\ tasks = [c \in Callables |-> IF c = "async" THEN l ELSE <<>>]
    /\ fn = [c \in Callables |-> IF c = "async" THEN Built(c, l) ELSE NotBuilt]
    /\ inv = [s \in {<<"async", 1>>} |-> Idle]
    /\ options = Dropped

\* an invocation of callable c is suspended on the future of a hook
HookPending(c) ==
  \E s \in DOMAIN inv :
    s[1] = c /\ inv[s].awaiting /\ inv[s].pc \in {"wrap", "break", "skip"}

\* tasks[k] = t
ReplaceAt(c, k, t) ==
  /\ HookPending(c)
  /\ k \in DOMAIN tasks[c]
  /\ tasks[c][k] # t
  /\ tasks' = [tasks EXCEPT ![c][k] = t]
  /\ UNCHANGED <<opts, fn, inv, options>>

\* tasks.pop()
RemoveLast(c) ==
  /\ HookPending(c)
  /\ tasks[c] # <<>>
  /\ tasks' = [tasks EXCEPT ![c] = SubSeq(tasks[c], 1, Len(tasks[c]) - 1)]
  /\ UNCHANGED <<opts, fn, inv, options>>

NextSwap ==
  \/ \E s \in DOMAIN inv, args \in ArgLists : Call(s, args)
  \/ \E s \in DOMAIN inv : Resume(s)
  \/ \E k \in 1..MaxTasks, t \in SwapTasks : ReplaceAt("async", k, t)
  \/ RemoveLast("async")

SpecSwap == InitSwap /\ [][NextSwap]_vars

(***************************************************************************)
(* Invocations carried on by the job queue: a continuation whose future    *)
(* has settled is eventually run.  The tasks include one that returns a    *)
(* Promise nobody settles.                                                 *)
(***************************************************************************)
LiveTasks ==
  {Task("inc", "plain"), Task("dbl", "thenable"), Task("throw", "future"),
   Task("inc", "never")}

LiveOptions ==
  {o \in OptsSet("async") :
     /\ o.resultWrapper \in {"default", "push"}
     /\ o.breakCondition \in {"default", "index1", "throws"}
     /\ o.skipCondition \in {"default", "index0", "last"}}

InitLive ==
  \E o \in LiveOptions, l \in SeqsUpTo(LiveTasks, MaxTasks - 1) :
    /\ opts = [c \in Callables |-> IF c = "async" THEN o ELSE DefaultOptions]
    /\ tasks = [c \in Callables |-> IF c = "async" THEN l ELSE <<>>]
    /\ fn = [c \in Callables |-> IF c = "async" THEN Built(c, l) ELSE NotBuilt]
    /\ inv = [s \in {<<"async", 1>>} |-> Idle]
    /\ options = Dropped

\* the job queue runs the continuation of some settled future
RunJob == \E s \in DOMAIN inv : Resume(s)

SpecLive == InitLive /\ [][NextConc]_vars /\ WF_vars(RunJob)

(***************************************************************************)
(* The build itself: createSerialTask(options) or                          *)
(* createSerialTaskAsync(options) over whatever the caller passes, then    *)
(* code that holds the task array changing it.                             *)
(***************************************************************************)
\* a placeholder in the task field of an array element that is no function
NoTask == Task("inc", "plain")

RawNames ==
  {RawName(Absent, ""), RawName("null", ""), RawName("number", ""),
   RawName("string", "custom"), RawName("string", "")}

RawItems ==
  {RawItem("function", Task("inc", "plain")), RawItem("function", Task("inc3", "plain")),
   RawItem("null", NoTask), RawItem("string", NoTask)}

RawTaskFields ==
  {RawTasks(Absent, <<>>), RawTasks("null", <<>>), RawTasks("string", <<>>)}
    \cup {RawTasks("array", l) : l \in SeqsUpTo(RawItems, MaxTasks - 1)}

RawHooks(kind) ==
  {RawHook(Absent, "default"), RawHook("null", "default"),
   RawHook("string", "default"), RawHook("function", kind)}

\* what a caller may pass as options
RawOptionsSet ==
  {RawOptions(t, RawName(Absent, ""), RawTasks(Absent, <<>>), RawHook(Absent, "default"),
              RawHook(Absent, "default"), RawHook(Absent, "default")) :
     t \in {"undefined", "null", "number", "string", "function"}}
    \cup {RawOptions("object", n, l, bc, sc, rw) :
            n \in RawNames, l \in RawTaskFields, bc \in RawHooks("index1"),
            sc \in RawHooks("index0"), rw \in RawHooks("push")}

InitBuild ==
  /\ options \in RawOptionsSet
  /\ opts = [c \in Callables |-> DefaultOptions]
  /\ tasks = [c \in Callables |-> <<>>]
  /\ fn = [c \in Callables |-> NotBuilt]
  /\ inv = [s \in {<<"sync", 1>>, <<"async", 1>>} |-> Idle]

\* the caller calls createSerialTask(options) (c = "sync") or
\* createSerialTaskAsync(options): normalize throws, or the callable is
\* produced over the task array of the options
Build(c) ==
  LET n == normalize(options) IN
  /\ \A d \in Callables : fn[d] = NotBuilt
  /\ IF n.error # NoError
       THEN /\ fn' = [fn EXCEPT ![c] = Refused(n.error)]
            /\ UNCHANGED <<opts, tasks>>
       ELSE /\ fn' = [fn EXCEPT ![c] = BuiltAs(c, n.name, n.tasks)]
            /\ opts' = [opts EXCEPT ![c] = n.opts]
            /\ tasks' = [tasks EXCEPT ![c] = n.tasks]
  /\ UNCHANGED <<inv, options>>

NextBuild ==
  \/ \E c \in Callables : Build(c)
  \/ \E c \in Callables : \E t \in TaskSet(c) : ExternalPush(c, t)
  \/ \E c \in Callables : ExternalClear(c)

SpecBuild == InitBuild /\ [][NextBuild]_vars

(***************************************************************************)
(* The handler chain of the README (Scenario 2) and of the scenario test:  *)
(* five handlers under the name 'httpHandler', breakCondition on a missing *)
(* `authenticated`, skipCondition for the admin user at index 1, and the   *)
(* resultWrapper as written there or the default one; beside it, the same  *)
(* chain without the two conditions, and a chain of arithmetic tasks.      *)
(***************************************************************************)
Handlers == [k \in DOMAIN HandlerOps |-> Task(HandlerOps[k], "plain")]

ScenarioLists == {Handlers, <<Task("inc", "plain"), Task("dbl", "plain"), Task("inc", "plain")>>}

ScenarioOptions(c) ==
  {OptionsOf(rw, cs[1], cs[2], m) :
     rw \in {"spread", "default"},
     cs \in {<<"unauthenticated", "admin">>, <<"default", "default">>},
     m \in IF c = "sync" THEN {"plain"} ELSE Modes}

\* the example GET request with empty metadata, the same sent by the admin
\* user, a POST without a body, a number, and a call without any argument
Requests ==
  {<<Req(0)>>, <<Req(Mark["admin"])>>, <<Req(Mark["postNoBody"])>>, <<Num(1)>>, <<>>}

InitScenario ==
  \E e \in Callables, list \in ScenarioLists :
    \E o \in ScenarioOptions(e) :
      /\ opts = [c \in Callables |-> IF c = e THEN o ELSE DefaultOptions]
      /\ tasks = [c \in Callables |-> IF c = e THEN list ELSE <<>>]
      /\ fn = [c \in Callables |->
                 IF c = e THEN BuiltAs(e, "httpHandler", list) ELSE NotBuilt]
      /\ inv = [s \in {<<e, 1>>} |-> Idle]
      /\ options = Dropped

NextScenario ==
  \/ \E s \in DOMAIN inv, args \in Requests : Call(s, args)
  \/ \E s \in DOMAIN inv : Resume(s)

SpecScenario == InitScenario /\ [][NextScenario]_vars

(***************************************************************************)
(* Vocabulary of the properties                                            *)
(***************************************************************************)
Done(v) == v.pc = "done"

\* a TaskReturn record reached the caller (directly or through the future)
Delivered(v) == v.out.channel \in {"returned", "fulfilled"}

\* results[i] as JavaScript reads it: undefined for an empty slot
Read(results, i) == IF i \in DOMAIN results.at THEN results.at[i] ELSE Undefined

Events(v) == {v.log[n] : n \in DOMAIN v.log}

\* the hook f answered true at index k
Fired(v, f, k) == \E e \in Events(v) : e.f = f /\ e.i = k /\ e.ok /\ Truthy(e.ret)

Indices == 0..(MaxTasks + 1)

\* output of task i (0-based) when the tasks are folded over the arguments
RECURSIVE Fold(_, _, _)
Fold(list, args, i) ==
  IF i = 0 THEN TaskBody(list[1], args).val
  ELSE TaskBody(list[i + 1], <<Fold(list, args, i - 1)>>).val

\* the result of the highest-index task that ran before index k
LastBefore(results, k) ==
  LET ran == {j \in DOMAIN results.at : j < k} IN
  IF ran = {} THEN Undefined
  ELSE results.at[CHOOSE j \in ran : \A m \in ran : m <= j]

NeverFails(list) == \A k \in DOMAIN list : list[k].op # "throw"

(***************************************************************************)
(* Properties                                                              *)
(***************************************************************************)
\* C1: a sync callable built from a non-empty list, with no hook overridden
\* and no failing task, returns value = the left-to-right fold of the tasks
\* over the call arguments, results[i] = the output of task i for every i,
\* trivial = false, breakAt = -1 and skipped = [].
C1_FoldOfTasks ==
  \A s \in DOMAIN inv :
    LET v == inv[s]
        n == Len(v.tasks0)
    IN (/\ s[1] = "sync" /\ Done(v)
        /\ ~fn[s[1]].builtEmpty /\ n > 0
        /\ opts[s[1]] = DefaultOptions
        /\ NeverFails(v.tasks0))
       => /\ v.out.channel = "returned"
          /\ v.out.value = Fold(v.tasks0, v.args, n - 1)
          /\ v.out.results.length = n
          /\ DOMAIN v.out.results.at = 0..(n - 1)
          /\ \A i \in 0..(n - 1) : v.out.results.at[i] = Fold(v.tasks0, v.args, i)
          /\ v.out.trivial = FALSE
          /\ v.out.breakAt = -1
          /\ v.out.skipped = <<>>

C1_Witness ==
  \E s \in DOMAIN inv :
    /\ s[1] = "sync" /\ Done(inv[s]) /\ ~fn[s[1]].builtEmpty
    /\ opts[s[1]] = DefaultOptions /\ NeverFails(inv[s].tasks0)
    /\ Len(inv[s].tasks0) >= 2 /\ inv[s].args # <<>>
    /\ inv[s].out.value.t = "number"

\* the break hook answered true at k and false at every index before k
BreakFirstAt(v, k) ==
  /\ Fired(v, "break", k)
  /\ \A e \in Events(v) : (e.f = "break" /\ e.i < k) => (e.ok /\ ~Truthy(e.ret))

\* what C2 states apart from `value`: breakAt = k, no result at any index
\* >= k, task k never run, nothing called for an index > k
BreakStops(v, k) ==
  /\ \A e \in Events(v) : e.i <= k /\ ~(e.i = k /\ e.f \in {"skip", "task"})
  /\ Done(v) => /\ Delivered(v)
                /\ v.out.breakAt = k
                /\ \A j \in DOMAIN v.out.results.at : j < k

\* C2 as stated: when breakCondition answers true at k (false before),
\* breakAt = k, results holds nothing at any index >= k, task k is never
\* run, nothing is called for an index > k, and value = results[k-1]
\* (undefined when k = 0).
C2_ValueIsPreviousSlot ==
  \A s \in DOMAIN inv : \A k \in Indices :
    BreakFirstAt(inv[s], k)
      => /\ BreakStops(inv[s], k)
         /\ Done(inv[s]) =>
              inv[s].out.value =
                (IF k = 0 THEN Undefined ELSE Read(inv[s].out.results, k - 1))

\* C2 (amended): the same, with value = the result of the last task that
\* ran before k (results[k-1] unless index k-1 was skipped; undefined when
\* no task ran before k).
C2_BreakStopsLoop ==
  \A s \in DOMAIN inv : \A k \in Indices :
    BreakFirstAt(inv[s], k)
      => /\ BreakStops(inv[s], k)
         /\ Done(inv[s]) => inv[s].out.value = LastBefore(inv[s].out.results, k)

C2_Witness ==
  \E s \in DOMAIN inv :
    /\ Done(inv[s]) /\ BreakFirstAt(inv[s], 1)
    /\ inv[s].out.breakAt = 1
    /\ Len(inv[s].tasks0) >= 3
    /\ inv[s].out.value.t = "number"

\* the skip hook answered true at k and nowhere else, the break hook nowhere
SkipOnlyAt(v, k) ==
  /\ Fired(v, "skip", k)
  /\ \A j \in Indices : Fired(v, "skip", j) => j = k
  /\ \A j \in Indices : ~Fired(v, "break", j)

\* C3: when skipCondition answers true only at index k and breakCondition
\* never fires, task k is never run, results holds nothing at k, the `last`
\* handed to the hooks at index k+1 is results[k-1] (undefined when k = 0),
\* and the returned record has skipped = [k].
C3_SkipKeepsLast ==
  \A s \in DOMAIN inv : \A k \in Indices :
    LET v == inv[s] IN
    (Done(v) /\ SkipOnlyAt(v, k))
      => /\ \A e \in Events(v) : ~(e.f = "task" /\ e.i = k)
         /\ k \notin DOMAIN v.results.at
         /\ \A e \in Events(v) :
              e.i = k + 1 =>
                e.last = (IF k = 0 THEN Undefined ELSE Read(v.results, k - 1))
         /\ Delivered(v) => /\ v.out.skipped = <<k>>
                            /\ k \notin DOMAIN v.out.results.at

C3_Witness ==
  \E s \in DOMAIN inv :
    /\ Done(inv[s]) /\ Delivered(inv[s]) /\ SkipOnlyAt(inv[s], 1)
    /\ \E e \in Events(inv[s]) : e.i = 2 /\ e.f = "task" /\ e.last.t = "number"

\* C4: when a task or a hook fails, that call is the last one the
\* invocation makes, the invocation ends with exactly that failure (raised
\* by the sync callable, rejection of the async callable's future) and no
\* record reaches the caller.
C4_FailurePropagates ==
  \A s \in DOMAIN inv :
    LET v == inv[s] IN
    \A n \in DOMAIN v.log :
      ~v.log[n].ok
        => /\ n = Len(v.log)
           /\ Done(v) \/ v.awaiting
           /\ Done(v) => /\ v.out.channel = (IF s[1] = "sync" THEN "raised" ELSE "rejected")
                         /\ v.out.error = v.log[n].ret

C4_Witness ==
  \E s \in DOMAIN inv :
    LET v == inv[s] IN
    /\ Done(v) /\ v.out.channel = "raised"
    /\ Len(v.log) > 0
    /\ ~v.log[Len(v.log)].ok
    /\ v.log[Len(v.log)].i >= 1
    /\ Len(v.tasks0) > v.log[Len(v.log)].i + 1

\* C5: every call of a callable built from an empty task list returns
\* trivial = true, value undefined, results [], breakAt = -1, skipped = [],
\* and calls none of the hooks, whatever hooks and arguments are given.
C5_EmptyBuildIsTrivial ==
  \A s \in DOMAIN inv :
    (Done(inv[s]) /\ fn[s[1]].builtEmpty)
      => /\ inv[s].out = TrivialReturn
         /\ inv[s].log = <<>>

C5_Witness ==
  \E s \in DOMAIN inv :
    /\ Done(inv[s]) /\ fn[s[1]].builtEmpty
    /\ inv[s].tasks0 = <<>>
    /\ inv[s].args # <<>>
    /\ opts[s[1]].breakCondition # "default"

AllDefault(out) ==
  /\ out.value = Undefined
  /\ out.results = NewArray(0)
  /\ out.breakAt = -1
  /\ out.skipped = <<>>

\* C6 as stated: the returned record has trivial = true exactly when the
\* task list was empty at the time of the call, and then it is the
\* all-default record and no hook was called.
C6_TrivialIffEmptyAtCall ==
  \A s \in DOMAIN inv :
    LET v == inv[s] IN
    Done(v) => /\ (Delivered(v) /\ v.out.trivial) <=> (v.tasks0 = <<>>)
               /\ v.tasks0 = <<>> => (Delivered(v) /\ AllDefault(v.out) /\ v.log = <<>>)

\* C6 (amended): the returned record has trivial = true exactly when the
\* task list was empty when the callable was built; a trivial record is the
\* all-default one; and whenever the list was empty at the call, value is
\* undefined, results empty, breakAt = -1, skipped empty and no hook was
\* called.
C6_TrivialIffEmptyAtBuild ==
  \A s \in DOMAIN inv :
    LET v == inv[s] IN
    Done(v) => /\ (Delivered(v) /\ v.out.trivial) <=> fn[s[1]].builtEmpty
               /\ (Delivered(v) /\ v.out.trivial) => (AllDefault(v.out) /\ v.log = <<>>)
               /\ v.tasks0 = <<>> => (Delivered(v) /\ AllDefault(v.out) /\ v.log = <<>>)

C6_Witness ==
  \E s \in DOMAIN inv :
    /\ Done(inv[s]) /\ ~fn[s[1]].builtEmpty
    /\ inv[s].tasks0 = <<>>
    /\ Delivered(inv[s]) /\ ~inv[s].out.trivial

\* C7: a callable built from an empty list keeps returning the trivial
\* record, and runs no task and no hook, on every call made after tasks
\* were appended to that list.
C7_EmptinessCapturedAtBuild ==
  \A s \in DOMAIN inv :
    LET v == inv[s] IN
    (Done(v) /\ fn[s[1]].builtEmpty /\ v.tasks0 # <<>>)
      => /\ Delivered(v) /\ v.out.trivial /\ AllDefault(v.out)
         /\ v.log = <<>>
         /\ tasks[s[1]] = v.tasks0

C7_Witness ==
  \E s \in DOMAIN inv :
    /\ Done(inv[s]) /\ fn[s[1]].builtEmpty
    /\ Len(inv[s].tasks0) >= 2
    /\ inv[s].out.trivial

\* C8: a task appended by a hook during an invocation is visited later in
\* that invocation, unless a break or a failure ends the loop first.
C8_AppendedTaskVisited ==
  \A s \in DOMAIN inv :
    LET v == inv[s] IN
    (Done(v) /\ Delivered(v) /\ ~v.out.trivial /\ v.out.breakAt = -1)
      => \A j \in Len(v.tasks0)..(Len(tasks[s[1]]) - 1) :
           \E e \in Events(v) : e.f = "wrap" /\ e.i = j

C8_Witness ==
  \E s \in DOMAIN inv :
    LET v == inv[s] IN
    /\ Done(v) /\ Delivered(v) /\ v.out.breakAt = -1
    /\ Len(tasks[s[1]]) > Len(v.tasks0)
    /\ \E e \in Events(v) : e.f = "task" /\ e.i = Len(v.tasks0) /\ e.ok

\* what the caller has once the outcome is settled: a record or a failure
Settled(out) ==
  [out EXCEPT !.channel = IF out.channel \in {"returned", "fulfilled"}
                            THEN "record" ELSE "failure"]

Sights(v) == [n \in DOMAIN v.log |-> Sight(v.log[n])]

\* C9: called with the same arguments over the same tasks and hooks, the
\* async engine settles to what the sync engine gives: same record (value,
\* results, trivial, breakAt, skipped) or same failure, after the same
\* sequence of hook and task calls.
C9_AsyncMatchesSync ==
  LET a == inv[<<"async", 1>>]
      b == inv[<<"sync", 1>>]
  IN (Done(a) /\ Done(b) /\ a.args = b.args /\ PlainList(a.tasks0) = b.tasks0)
       => /\ Settled(a.out) = Settled(b.out)
          /\ Sights(a) = Sights(b)
          /\ PlainList(tasks["async"]) = tasks["sync"]

C9_Witness ==
  LET a == inv[<<"async", 1>>]
      b == inv[<<"sync", 1>>]
  IN /\ Done(a) /\ Done(b) /\ a.args = b.args
     /\ a.out.channel = "fulfilled"
     /\ Len(a.tasks0) >= 2
     /\ opts["async"].mode = "future"
     /\ a.out.skipped # <<>>
     /\ a.out.value.t = "number"
     /\ \E k \in DOMAIN a.tasks0 : a.tasks0[k].mode # "plain"

\* C10: in the async engine a task or hook that throws and one that returns
\* a rejected future end the call the same way: the call does not throw, it
\* returns a future that rejects with that failure.
C10_UniformFailureChannel ==
  \A s \in DOMAIN inv :
    LET v == inv[s] IN
    (s[1] = "async" /\ Done(v))
      => /\ v.out.channel # "raised"
         /\ \A e \in Events(v) :
              e.how \in {"throw", "rejects"}
                => (v.out.channel = "rejected" /\ v.out.error = e.ret)

C10_Witness ==
  \E s \in DOMAIN inv :
    LET v == inv[s] IN
    /\ s[1] = "async" /\ Done(v) /\ v.out.channel = "rejected"
    /\ \E e \in Events(v) : e.how = "throw" /\ e.f = "task" /\ e.i >= 1

(***************************************************************************)
(* One call at a time within an asynchronous invocation                    *)
(***************************************************************************)
AsyncSlots == {s \in DOMAIN inv : s[1] = "async"}

\* C11: within one asynchronous invocation there is never more than one
\* hook or task call that has started and not yet settled: a call is
\* outstanding only while the invocation is suspended on it, and none is
\* left when the invocation is over
C11_OneOutstandingCall ==
  \A s \in AsyncSlots :
    LET v == inv[s] IN
    /\ v.open \in {0, 1}
    /\ v.open = 1 <=> v.awaiting
    /\ v.awaiting => v.log # <<>> /\ v.pc = v.log[Len(v.log)].f
                                /\ v.i = v.log[Len(v.log)].i
    /\ Done(v) => v.open = 0

\* the wrapper of index 1 is outstanding after the task of index 0, which
\* returned a thenable, has settled
C11_Witness ==
  \E s \in AsyncSlots :
    LET v == inv[s] IN
    /\ v.awaiting /\ v.open = 1 /\ v.pc = "wrap" /\ v.i = 1
    /\ \E n \in DOMAIN v.log :
         v.log[n].f = "task" /\ v.log[n].i = 0 /\ v.log[n].how = "fulfils"

(***************************************************************************)
(* Futures are awaited                                                     *)
(***************************************************************************)
\* the calls of v whose result has settled and been taken up by the loop
SettledCalls(v) ==
  {v.log[n] : n \in {m \in DOMAIN v.log : m < Len(v.log) \/ ~v.awaiting}}

IsFuture(x) == x.t = "thenable"

NoFutureIn(results) == \A j \in DOMAIN results.at : ~IsFuture(results.at[j])

\* C12: in the async engine a future-like result (a Promise or any object
\* with a callable then) is replaced by its settled value: lastReturn as
\* the hooks receive it, every task input, every results[i] and the final
\* value are never future-like; results[i] is the settled value of task i;
\* the loop breaks or skips at an index exactly when the settled answer of
\* the condition is true
C12_SettledValuesUsed ==
  \A s \in AsyncSlots :
    LET v == inv[s] IN
    /\ ~IsFuture(v.last) /\ NoFutureIn(v.results)
    /\ ~IsFuture(v.out.value) /\ NoFutureIn(v.out.results)
    /\ \A e \in Events(v) :
         /\ ~IsFuture(e.last)
         /\ \A k \in DOMAIN e.args : ~IsFuture(e.args[k])
    /\ \A e \in SettledCalls(v) :
         /\ e.f = "task" /\ e.ok => Read(v.results, e.i) = e.ret
         /\ e.f = "break" /\ e.ok => (Truthy(e.ret) <=> v.breakAt = e.i)
         /\ e.f = "skip" /\ e.ok =>
              (Truthy(e.ret) <=> \E k \in DOMAIN v.skipped : v.skipped[k] = e.i)

\* a task handed its value over in a thenable that is not a Promise, a
\* condition written as an async function answered true, and the record
\* holds the settled values
C12_Witness ==
  \E s \in AsyncSlots :
    LET v == inv[s] IN
    /\ Done(v) /\ v.out.channel = "fulfilled" /\ opts["async"].mode = "future"
    /\ v.out.skipped # <<>> /\ v.out.value.t = "number"
    /\ \E e \in Events(v) :
         /\ e.f = "task" /\ e.how = "fulfils" /\ v.tasks0[e.i + 1].mode = "thenable"
         /\ Read(v.out.results, e.i) = e.ret

(***************************************************************************)
(* What a call of the async callable hands back                            *)
(***************************************************************************)
\* C13: every call of a callable produced by createSerialTaskAsync returns
\* a future of a TaskReturn record (its outcome arrives as a fulfilment or
\* a rejection), also when the list was empty at the build: then the
\* trivial record comes in an already-resolved future, not bare
C13_CallReturnsFuture ==
  \A s \in AsyncSlots :
    Done(inv[s]) => inv[s].out.channel \in {"fulfilled", "rejected"}

(***************************************************************************)
(* Overlapping invocations of one async callable                           *)
(***************************************************************************)
\* an invocation carried through all its awaits with nothing in between
RECURSIVE Finish(_, _, _)
Finish(c, o, st) ==
  IF st.inv.pc = "done" THEN st ELSE Finish(c, o, Wake(c, o, st))

\* the invocation fn(...args) over list when it is the only one
Alone(c, kind, o, args, list) == Finish(c, o, Invocation(c, kind, o, args, list)).inv

\* no hook of o pushes onto the list
Unmutating(o) == o.resultWrapper # "push"

\* C14: invocations of the same async callable that overlap in time, with
\* hooks and tasks that do not mutate the list, do not disturb each other:
\* each ends with exactly the outcome, and after exactly the calls, that
\* it would have if it were the only invocation
C14_OverlappingIndependent ==
  \A s \in AsyncSlots :
    LET v == inv[s]
        a == Alone("async", fn["async"].kind, opts["async"], v.args, v.tasks0)
    IN Done(v) /\ Unmutating(opts["async"]) => v.out = a.out /\ v.log = a.log

\* two invocations with different arguments: the second was started while
\* the first was suspended and is still suspended past its first task when
\* the first has delivered a record with a skipped index
C14_Witness ==
  LET v == inv[<<"async", 1>>]
      w == inv[<<"async", 2>>]
  IN /\ DOMAIN inv = {<<"async", 1>>, <<"async", 2>>}
     /\ Unmutating(opts["async"])
     /\ Done(v) /\ v.out.channel = "fulfilled" /\ v.out.skipped # <<>>
     /\ w.awaiting /\ w.i >= 1 /\ w.args # v.args /\ Len(w.log) < Len(v.log)

(***************************************************************************)
(* The order of the indices                                                *)
(***************************************************************************)
\* the position of a call within the work done for one index
Rank(f) == CASE f = "wrap" -> 1 [] f = "break" -> 2 [] f = "skip" -> 3 [] OTHER -> 4

\* C15: within one invocation of either engine the indices at which hooks
\* and tasks are called are 0, 1, 2, ... in ascending order: the first call
\* is at index 0, a call is followed by a later call at the same index or
\* by the first call at the next index, so that no index is repeated,
\* passed over or visited again; the loop variable is never behind the
\* calls made
C15_AscendingIndices ==
  \A s \in DOMAIN inv :
    LET v == inv[s] IN
    /\ v.log # <<>> => v.log[1].i = 0 /\ v.log[1].f = "wrap"
    /\ \A n \in DOMAIN v.log :
         n > 1 =>
           LET e == v.log[n - 1]
               g == v.log[n]
           IN \/ g.i = e.i /\ Rank(g.f) > Rank(e.f)
              \/ g.i = e.i + 1 /\ g.f = "wrap"
    /\ \A e \in Events(v) : e.i <= v.i

\* three indices visited, the middle one skipped
C15_Witness ==
  \E s \in DOMAIN inv :
    LET v == inv[s] IN
    /\ Done(v) /\ Delivered(v) /\ v.out.skipped = <<1>>
    /\ \E e \in Events(v) : e.f = "task" /\ e.i = 2
    /\ \E e \in Events(v) : e.f = "task" /\ e.i = 0

(***************************************************************************)
(* The input of a task under the default resultWrapper                     *)
(***************************************************************************)
TaskCalls(v) == {e \in Events(v) : e.f = "task"}

\* C16 as stated: with the default resultWrapper the input of the task at
\* an executed index i > 0 is the output of the task at index i - 1 (read
\* from results), and the input at index 0 is the call arguments, whatever
\* breakCondition and skipCondition are configured
C16_InputFromPreviousIndex ==
  \A s \in DOMAIN inv :
    LET v == inv[s] IN
    opts[s[1]].resultWrapper = "default" =>
      \A e \in TaskCalls(v) :
        e.args = IF e.i = 0 THEN v.args ELSE <<Read(v.results, e.i - 1)>>

\* C16 amended: with the default resultWrapper the input of the task at an
\* executed index i > 0 is the one-element list holding the output of the
\* nearest executed task before i (undefined if none ran), and the input at
\* index 0 is the call arguments
C16_InputFromLastExecuted ==
  \A s \in DOMAIN inv :
    LET v == inv[s] IN
    opts[s[1]].resultWrapper = "default" =>
      \A e \in TaskCalls(v) :
        e.args = IF e.i = 0 THEN v.args ELSE <<LastBefore(v.results, e.i)>>

\* index 1 was skipped and the task at index 2 got the output of task 0
C16_Witness ==
  \E s \in DOMAIN inv :
    LET v == inv[s] IN
    /\ opts[s[1]].resultWrapper = "default" /\ v.skipped = <<1>>
    /\ \E e \in TaskCalls(v) :
         e.i = 2 /\ e.args = <<Read(v.results, 0)>> /\ e.args[1].t = "number"
    /\ \E e \in TaskCalls(v) : e.i = 0 /\ e.args = v.args /\ v.args # <<>>

(***************************************************************************)
(* How an invocation ends                                                  *)
(***************************************************************************)
\* the invocation followed
Watched == inv[<<"async", 1>>]

Suspended == Watched.awaiting

\* suspended on a future that will never settle
Stuck == Suspended /\ Watched.pending.then = "never"

\* the loop ran off the end of the list: every index was visited
Exhausted(v, list) ==
  /\ Delivered(v) /\ v.out.breakAt = -1 /\ v.i = Len(list)
  /\ \A k \in 0..(Len(list) - 1) : \E e \in Events(v) : e.f = "wrap" /\ e.i = k

\* breakCondition answered true at the index the loop stands at
Broke(v, list) ==
  /\ Delivered(v) /\ v.out.breakAt = v.i /\ v.i < Len(list)
  /\ Fired(v, "break", v.i) /\ v.log[Len(v.log)].f = "break"

\* the last call made failed and its error is the outcome
Failed(v) ==
  /\ ~Delivered(v) /\ v.log # <<>>
  /\ ~v.log[Len(v.log)].ok /\ v.out.error = v.log[Len(v.log)].ret

\* an invocation of a looping callable that is over ended in exactly one
\* of the three ways
EndsOneWay ==
  \A s \in DOMAIN inv :
    LET v == inv[s]
        l == tasks[s[1]]
    IN Done(v) /\ ~v.out.trivial =>
         /\ Exhausted(v, l) \/ Broke(v, l) \/ Failed(v)
         /\ ~(Exhausted(v, l) /\ Broke(v, l))
         /\ ~(Exhausted(v, l) /\ Failed(v))
         /\ ~(Broke(v, l) /\ Failed(v))

HasReturned(s) == Done(inv[s]) /\ Delivered(inv[s])

\* the list is the one the invocation started with
ListUntouched(s) == tasks[s[1]] = inv[s].tasks0

\* the highest index whose task ran, -1 if none did
TopRan(results) ==
  IF DOMAIN results.at = {} THEN -1
  ELSE CHOOSE j \in DOMAIN results.at : \A m \in DOMAIN results.at : m <= j

Max(a, b) == IF a >= b THEN a ELSE b

\* C18 as stated: when the list is not mutated during an invocation, the
\* returned results has exactly as many slots as the task list, whatever
\* was skipped or broken
C18_LengthIsListLength ==
  \A s \in DOMAIN inv :
    HasReturned(s) /\ ListUntouched(s) =>
      inv[s].out.results.length = Len(tasks[s[1]])

\* C18 amended: the same for a callable built from a non-empty list; a
\* callable built from an empty list returns results of length 0 whatever
\* the list holds at the call
C18_LengthIsListLengthIfLooping ==
  \A s \in DOMAIN inv :
    HasReturned(s) /\ ListUntouched(s) =>
      inv[s].out.results.length =
        IF fn[s[1]].builtEmpty THEN 0 ELSE Len(tasks[s[1]])

\* three tasks, a break at index 1, three slots, one of them filled; and
\* the case of the callable built empty whose list has tasks by now
C18_Witness ==
  \E s \in DOMAIN inv :
    /\ HasReturned(s) /\ ListUntouched(s) /\ ~fn[s[1]].builtEmpty
    /\ inv[s].out.breakAt = 1 /\ Len(tasks[s[1]]) = 3
    /\ inv[s].out.results.length = 3 /\ DOMAIN inv[s].out.results.at = {0}

\* hooks pushed tasks onto the list while the invocation in slot s ran
ListGrown(s) == Len(tasks[s[1]]) > Len(inv[s].tasks0)

\* C19 as stated: when hooks append tasks during an invocation, the
\* returned results is as long as the task list is at the return
C19_LengthIsFinalListLength ==
  \A s \in DOMAIN inv :
    HasReturned(s) /\ ListGrown(s) =>
      inv[s].out.results.length = Len(tasks[s[1]])

\* C19 amended: when hooks append tasks during an invocation, the returned
\* results is as long as the list was at the call, or reaches up to the
\* highest index whose task ran if that is further; it is as long as the
\* list at the return exactly when the task at the last index ran; each
\* slot holds the value of the task that ran at its index or is unset
C19_LengthReachesLastTaskRun ==
  \A s \in DOMAIN inv :
    LET v == inv[s]
        r == v.out.results
    IN HasReturned(s) /\ ListGrown(s) =>
         /\ r.length = Max(Len(v.tasks0), TopRan(r) + 1)
         /\ r.length <= Len(tasks[s[1]])
         /\ r.length = Len(tasks[s[1]]) <=> TopRan(r) = Len(tasks[s[1]]) - 1
         /\ \A e \in TaskCalls(v) : e.i \in DOMAIN r.at /\ r.at[e.i] = e.ret
         /\ \A j \in DOMAIN r.at : \E e \in TaskCalls(v) : e.i = j

\* the wrapper pushed a second task at index 0, which was then skipped:
\* one slot for two tasks
C19_Witness ==
  \E s \in DOMAIN inv :
    /\ HasReturned(s) /\ ListGrown(s)
    /\ Len(inv[s].tasks0) = 1 /\ Len(tasks[s[1]]) = 2
    /\ inv[s].out.skipped = <<1>> /\ inv[s].out.results.length = 1
    /\ DOMAIN inv[s].out.results.at = {0}

(***************************************************************************)
(* Invocation state is fresh on every call                                 *)
(***************************************************************************)
\* C20: what a call hands back (value, results, breakAt, skipped, or the
\* failure) is what the first call ever made with these arguments over
\* this list would hand back: nothing is carried over from earlier calls
C20_FreshStatePerCall ==
  \A s \in DOMAIN inv :
    LET v == inv[s]
        c == s[1]
    IN Done(v) => v.out = Alone(c, fn[c].kind, opts[c], v.args, v.tasks0).out

\* a call that skipped nothing, made right after a call of the same
\* callable that skipped an index
C20_Witness ==
  \E s \in DOMAIN inv :
    LET v == inv[s] IN
    /\ Done(v) /\ v.after /\ Delivered(v) /\ ~v.out.trivial
    /\ v.out.skipped = <<>> /\ Len(v.tasks0) >= 2 /\ v.out.breakAt = -1

(***************************************************************************)
(* Validation of the options                                               *)
(***************************************************************************)
\* a field the caller supplied: its value is not undefined
Present(x) == x.type # "undefined"

HookFields(o) == {o.breakCondition, o.skipCondition, o.resultWrapper}

\* the options are invalid as the configuration rules put it
Invalid(o) ==
  \/ o.type # "object"
  \/ Present(o.name) /\ o.name.type # "string"
  \/ o.tasks.type # "array"
  \/ \E k \in DOMAIN o.tasks.items : o.tasks.items[k].type # "function"
  \/ \E h \in HookFields(o) : Present(h) /\ h.type # "function"

\* a build with engine c has been attempted
Attempted(c) == fn[c] # NotBuilt

\* C21: a build with either engine throws a TypeError and produces no
\* callable exactly when options is not a non-null object, or name is
\* supplied and not a string, or tasks is not an array of functions only,
\* or a hook is supplied (null included) and not a function; in every
\* other case it produces a callable
C21_RefusedIffInvalid ==
  \A c \in Callables :
    Attempted(c) =>
      IF Invalid(options)
        THEN fn[c].kind = "none" /\ fn[c].error.type = "TypeError"
        ELSE fn[c].kind \in {"trivial", "loop"} /\ fn[c].error = NoError

\* the async build was refused over a breakCondition of null, all else
\* being valid
C21_Witness ==
  /\ Attempted("async") /\ fn["async"].kind = "none"
  /\ options.type = "object" /\ options.breakCondition.type = "null"
  /\ options.name.type = "string" /\ options.tasks.type = "array"
  /\ Len(options.tasks.items) = 2 /\ ~SomeNotFunction(options.tasks.items)
  /\ options.skipCondition.type = "function" /\ ~Present(options.resultWrapper)

\* the checks in their fixed order
CheckOrder ==
  <<"options", "name", "tasks", "breakCondition", "skipCondition", "resultWrapper">>

\* the fields of o that are invalid; of something that is no object, the
\* options themselves
InvalidFields(o) ==
  IF o.type # "object" THEN {"options"}
  ELSE {f \in {"name"} : Present(o.name) /\ o.name.type # "string"}
    \cup {f \in {"tasks"} : o.tasks.type # "array" \/ SomeNotFunction(o.tasks.items)}
    \cup {f \in {"breakCondition"} :
            Present(o.breakCondition) /\ o.breakCondition.type # "function"}
    \cup {f \in {"skipCondition"} :
            Present(o.skipCondition) /\ o.skipCondition.type # "function"}
    \cup {f \in {"resultWrapper"} :
            Present(o.resultWrapper) /\ o.resultWrapper.type # "function"}

\* the invalid field that comes first in the order of the checks
FirstInvalid(o) ==
  LET at == CHOOSE k \in DOMAIN CheckOrder :
              /\ CheckOrder[k] \in InvalidFields(o)
              /\ \A j \in 1..(k - 1) : CheckOrder[j] \notin InvalidFields(o)
  IN CheckOrder[at]

\* C22: when several fields are invalid at once, the error of a refused
\* build is about the first invalid one in the order options, name, tasks,
\* breakCondition, skipCondition, resultWrapper
C22_FirstFailingCheckReported ==
  \A c \in Callables :
    fn[c].error.type = "TypeError" => fn[c].error.about = FirstInvalid(options)

\* name, tasks and breakCondition are all invalid and the error is about
\* name
C22_Witness ==
  \E c \in Callables :
    /\ fn[c].error = TypeError("name")
    /\ {"name", "tasks", "breakCondition"} \subseteq InvalidFields(options)

(***************************************************************************)
(* Name and length of the produced callable                                *)
(***************************************************************************)
\* C23: the name of the produced callable is the configured name, and
\* 'kskbTask' when no name is configured, with either engine, for a list
\* that is empty at the build and for one that is not
C23_NameAsConfigured ==
  \A c \in Callables :
    fn[c].kind \in {"trivial", "loop"} =>
      fn[c].name = IF Present(options.name) THEN options.name.text ELSE "kskbTask"

\* an async callable built from an empty list under a name of its own
C23_Witness ==
  /\ fn["async"].kind = "trivial" /\ fn["async"].builtEmpty
  /\ options.name = RawName("string", "custom") /\ fn["async"].name = "custom"

\* C24: the length of a callable built from a non-empty list is the number
\* of parameters of the task that was first in the list at the build, with
\* either engine, whatever has become of the list since
C24_LengthOfFirstTaskAtBuild ==
  \A c \in Callables :
    fn[c].kind = "loop" => fn[c].length = Arity(options.tasks.items[1].task)

\* the list was emptied and refilled after the build: its first task now
\* declares another number of parameters than the callable
C24_Witness ==
  \E c \in Callables :
    /\ fn[c].kind = "loop" /\ tasks[c] # <<>>
    /\ tasks[c][1] # options.tasks.items[1].task
    /\ Arity(tasks[c][1]) # fn[c].length /\ fn[c].length = 3

(***************************************************************************)
(* The calls made at one index                                             *)
(***************************************************************************)
\* the positions in the log of the calls of f at index k
Calls(v, f, k) == {n \in DOMAIN v.log : v.log[n].f = f /\ v.log[n].i = k}

\* the indices at which a call has been made
Visited(v) == {e.i : e \in Events(v)}

\* the loop is through with index k
Over(v, k) == v.i > k \/ Done(v)

\* the call of f at index k came back with a falsy value
Falsy(v, f, k) == \E n \in Calls(v, f, k) : v.log[n].ok /\ ~Truthy(v.log[n].ret)

\* at index k every hook and the task is called at most once, in the order
\* resultWrapper, breakCondition, skipCondition, task; skipCondition only
\* after a falsy breakCondition, the task only after both were falsy
OrderedAt(v, k) ==
  /\ \A f \in {"wrap", "break", "skip", "task"} : Cardinality(Calls(v, f, k)) <= 1
  /\ \A n, m \in DOMAIN v.log :
       n < m /\ v.log[n].i = k /\ v.log[m].i = k => Rank(v.log[n].f) < Rank(v.log[m].f)
  /\ Calls(v, "skip", k) # {} => Falsy(v, "break", k)
  /\ Calls(v, "task", k) # {} => Falsy(v, "break", k) /\ Falsy(v, "skip", k)

\* C26 as stated: at every visited index the calls are made in the order
\* resultWrapper, breakCondition, skipCondition, task, each at most once;
\* skipCondition only if breakCondition was falsy, the task only if both
\* were; and once the loop is through with the index, resultWrapper and
\* breakCondition have each been called exactly once there
C26_WrapAndBreakAtEveryIndex ==
  \A s \in DOMAIN inv :
    LET v == inv[s] IN
    \A k \in Visited(v) :
      /\ OrderedAt(v, k)
      /\ Over(v, k) =>
           /\ Cardinality(Calls(v, "wrap", k)) = 1
           /\ Cardinality(Calls(v, "break", k)) = 1

\* C26 as amended: the same, but breakCondition has been called exactly
\* once at the indices where the call of resultWrapper did not fail, and
\* not at all where it failed
C26_BreakUnlessWrapFailed ==
  \A s \in DOMAIN inv :
    LET v == inv[s] IN
    \A k \in Visited(v) :
      /\ OrderedAt(v, k)
      /\ Over(v, k) =>
           /\ Cardinality(Calls(v, "wrap", k)) = 1
           /\ IF \E n \in Calls(v, "wrap", k) : v.log[n].ok
                THEN Cardinality(Calls(v, "break", k)) = 1
                ELSE Calls(v, "break", k) = {}

\* index 0 skipped, the task at index 1 called, the loop broken at index 2
\* after its resultWrapper call
C26_Witness ==
  \E s \in DOMAIN inv :
    LET v == inv[s] IN
    /\ Done(v) /\ Delivered(v)
    /\ v.out.skipped = <<0>> /\ v.out.breakAt = 2
    /\ Calls(v, "task", 1) # {}
    /\ Calls(v, "wrap", 2) # {} /\ Calls(v, "skip", 2) = {}

(***************************************************************************)
(* Break before skip                                                       *)
(***************************************************************************)
\* the value skipCondition would return if it were called where the call e
\* of breakCondition was made
WouldSkip(s, e) ==
  LET b == ConditionBody(opts[s[1]].skipCondition, ErrSkip, e.i, tasks[s[1]],
                         e.args, e.last)
  IN b.ok /\ Truthy(b.val)

\* C27: break takes precedence over skip: if breakCondition returns true
\* at an index where skipCondition would return true as well, then
\* skipCondition is not called at that index, the index is not in skipped,
\* and the invocation returns breakAt = that index
C27_BreakBeforeSkip ==
  \A s \in DOMAIN inv :
    LET v == inv[s] IN
    \A e \in Events(v) :
      e.f = "break" /\ e.ok /\ Truthy(e.ret) /\ WouldSkip(s, e) =>
        /\ Calls(v, "skip", e.i) = {}
        /\ \A n \in DOMAIN v.skipped : v.skipped[n] # e.i
        /\ Done(v) =>
             /\ Delivered(v)
             /\ v.out.breakAt = e.i
             /\ \A n \in DOMAIN v.out.skipped : v.out.skipped[n] # e.i

\* both conditions are true at index 1 and the invocation has returned
C27_Witness ==
  \E s \in DOMAIN inv :
    LET v == inv[s] IN
    /\ Done(v) /\ Delivered(v)
    /\ \E e \in Events(v) :
         e.f = "break" /\ e.i = 1 /\ e.ok /\ Truthy(e.ret) /\ WouldSkip(s, e)

(***************************************************************************)
(* No break after the final task                                           *)
(***************************************************************************)
\* breakCondition would return true if it were called once more after the
\* task call e, with the result of e as `last`
WouldBreakAfter(s, e) ==
  LET b == ConditionBody(opts[s[1]].breakCondition, ErrBreak, e.i + 1, tasks[s[1]],
                         inv[s].args, e.ret)
  IN b.ok /\ Truthy(b.val)

\* the call e of the task at the last index of the list came back with a
\* result
FinalTask(s, e) == e.f = "task" /\ e.i = Len(tasks[s[1]]) - 1 /\ e.ok

TasksBefore(v, n) == {m \in DOMAIN v.log : m < n /\ v.log[m].f = "task"}

\* the value returned by the latest of them (the one of highest index),
\* undefined if there is none
LatestBefore(v, n) ==
  IF TasksBefore(v, n) = {} THEN Undefined
  ELSE v.log[CHOOSE m \in TasksBefore(v, n) :
               \A j \in TasksBefore(v, n) : j <= m].ret

\* C29: at every hook call of an invocation `last` is the return value of
\* the highest-index task executed so far in that invocation, undefined if
\* none has been executed (at index 0, or when every earlier index was
\* skipped); the returned value is the return value of the highest-index
\* task executed, undefined if none was
C29_LastIsLatestTaskResult ==
  \A s \in DOMAIN inv :
    LET v == inv[s] IN
    /\ \A n \in DOMAIN v.log :
         /\ v.log[n].f # "task" => v.log[n].last = LatestBefore(v, n)
         /\ \A m \in TasksBefore(v, n) : v.log[m].i < v.log[n].i
    /\ Done(v) /\ Delivered(v) => v.out.value = LatestBefore(v, Len(v.log) + 1)

\* index 1 was skipped and the hooks at index 2 were given the result of
\* the task at index 0
C29_Witness ==
  \E s \in DOMAIN inv :
    LET v == inv[s] IN
    /\ Done(v) /\ Delivered(v) /\ v.out.skipped = <<1>>
    /\ \E n \in DOMAIN v.log :
         /\ v.log[n].f = "wrap" /\ v.log[n].i = 2
         /\ v.log[n].last = LatestBefore(v, n)
         /\ v.log[n].last.t = "number"
    /\ v.out.value.t = "number"

(***************************************************************************)
(* The handler chain                                                       *)
(***************************************************************************)
\* the task at index k has been called
Ran(v, k) == \E e \in TaskCalls(v) : e.i = k

\* slot s holds a call of the chain as the README and the test configure it
AsWritten(s) ==
  /\ opts[s[1]].resultWrapper = "spread"
  /\ opts[s[1]].breakCondition = "unauthenticated"
  /\ opts[s[1]].skipCondition = "admin"
  /\ inv[s].tasks0 = Handlers

\* the call of the example, requestHandler(request), has ended
ExampleCall(s) == AsWritten(s) /\ Done(inv[s]) /\ inv[s].args = <<Req(0)>>

\* C25: the chain of Scenario 2, called with the example GET request whose
\* metadata is empty, runs all five handlers in order and returns
\* skipped = [] and breakAt = -1
C25_ExampleRunsAllHandlers ==
  \A s \in DOMAIN inv :
    ExampleCall(s) =>
      /\ Delivered(inv[s])
      /\ \A k \in 0..(Len(Handlers) - 1) : Ran(inv[s], k)
      /\ inv[s].out.skipped = <<>>
      /\ inv[s].out.breakAt = -1

AloneList(c, kind, o, args, list) ==
  Finish(c, o, Invocation(c, kind, o, args, list)).tasks

\* invocation v has called a task at an index that the list would not have
\* had if v had been the only invocation
RanForeign(v) ==
  \E e \in TaskCalls(v) :
    e.i >= Len(AloneList("async", fn["async"].kind, opts["async"], v.args, v.tasks0))

\* C31: overlapping invocations of one async callable share the live list:
\* an invocation that returns without a break has visited every index of
\* the list as it is at that moment, the tasks appended meanwhile by a hook
\* of another invocation included; where it has called such a task its
\* results differ from those it would return running alone, and so does
\* its value when it was called with a number
C31_SharedListNotIsolated ==
  [][\A s \in AsyncSlots :
       LET v == inv'[s]
           a == Alone("async", fn["async"].kind, opts["async"], v.args, v.tasks0)
       IN ~Done(inv[s]) /\ Done(v) /\ Delivered(v) /\ ~v.out.trivial =>
            /\ v.out.breakAt = -1 =>
                 \A k \in 0..(Len(tasks'["async"]) - 1) : k \in Visited(v)
            /\ RanForeign(v) =>
                 /\ v.out.results # a.out.results
                 /\ v.args # <<>> => v.out.value # a.out.value]_vars

\* a call with the argument 1 over a list of two tasks has run the task at
\* index 2, which the overlapping call without argument appended
C31_Witness ==
  \E s \in AsyncSlots :
    LET v == inv[s] IN
    /\ Done(v) /\ Delivered(v)
    /\ v.args = <<Num(1)>> /\ Len(v.tasks0) = 2
    /\ RanForeign(v) /\ Calls(v, "task", 2) # {}
    /\ v.out.value.t = "number"

(***************************************************************************)
(* The list belongs to the caller                                          *)
(***************************************************************************)
\* this step is a step of the invocation in slot s: its call or one of its
\* continuations
EngineStep(s) == inv'[s] # inv[s] /\ inv'[s].pc # "idle"

\* this step is the call of the invocation in slot s
CallStep(s) == EngineStep(s) /\ inv[s].pc \in {"idle", "done"}

\* the list after the hooks called in this step of slot s have had their
\* way with it: the pushing resultWrapper appends x => x * 2 at index 0 of a
\* list of one task
AsHooksLeaveIt(s) ==
  LET c == s[1] IN
  IF /\ CallStep(s) /\ fn[c].kind = "loop"
     /\ opts[c].resultWrapper = "push" /\ Len(tasks[c]) = 1
    THEN Append(tasks[c], Task("dbl", opts[c].mode))
    ELSE tasks[c]

\* the invocation in slot s has returned from its call without a break and
\* has visited every index of the list as it was when the call was made
SeesList(s) ==
  LET v == inv'[s] IN
  /\ v.tasks0 = tasks[s[1]]
  /\ Done(v) /\ Delivered(v) /\ v.out.breakAt = -1 =>
       \A k \in 0..(Len(tasks[s[1]]) - 1) : k \in Visited(v)

HookCalls(v) == {e \in Events(v) : e.f # "task"}

\* C33: within one invocation every hook call at every index receives the
\* argument list the callable was called with, which stays what it was
\* while the invocation goes on
C33_HooksGetCallArguments ==
  [][\A s \in DOMAIN inv :
       /\ \A e \in HookCalls(inv'[s]) : e.args = inv'[s].args
       /\ EngineStep(s) /\ ~CallStep(s) => inv'[s].args = inv[s].args]_vars

\* hooks were called at index 1 of a call with an argument, after the
\* resultWrapper had yielded another list than the arguments
C33_Witness ==
  \E s \in DOMAIN inv :
    LET v == inv[s] IN
    /\ v.args # <<>> /\ Done(v)
    /\ \E e \in HookCalls(v) : e.f = "wrap" /\ e.i = 1 /\ e.ok /\ e.list # v.args
    /\ \E e \in HookCalls(v) : e.f = "skip" /\ e.i = 1 /\ e.args = v.args

(***************************************************************************)
(* The elements the engine reads                                           *)
(***************************************************************************)
\* C34: every element of the task list that the engine reads during an
\* invocation (and hands to the hooks or calls) is callable, the elements
\* appended to the list after the build included
C34_ElementsReadAreCallable ==
  \A s \in DOMAIN inv : \A e \in Events(inv[s]) : Callable(e.task)

(***************************************************************************)
(* The shape of a returned record                                          *)
(***************************************************************************)
\* the indices whose task invocation v has called
Executed(v) == {e.i : e \in TaskCalls(v)}

\* the indices in a sequence of indices
Among(seq) == {seq[n] : n \in DOMAIN seq}

\* C35: in every returned non-trivial record skipped is strictly ascending;
\* no skipped index has a value in results and every executed index has
\* one; breakAt is -1 or an index that is neither skipped nor executed and
\* lies above every skipped and every executed index; and every index
\* below the stopping point (breakAt, or the final length of the list when
\* breakAt = -1) is either executed or skipped, never both
C35_RecordWellFormed ==
  \A s \in DOMAIN inv :
    LET v == inv[s]
        out == v.out
        sk == Among(out.skipped)
        ex == Executed(v)
        stop == IF out.breakAt = -1 THEN Len(tasks[s[1]]) ELSE out.breakAt
    IN Done(v) /\ Delivered(v) /\ ~out.trivial =>
         /\ \A n, m \in DOMAIN out.skipped : n < m => out.skipped[n] < out.skipped[m]
         /\ \A k \in sk : k \notin DOMAIN out.results.at
         /\ \A k \in ex : k \in DOMAIN out.results.at
         /\ \/ out.breakAt = -1
            \/ /\ out.breakAt >= 0
               /\ out.breakAt \notin sk \cup ex
               /\ \A k \in sk \cup ex : k < out.breakAt
         /\ \A k \in 0..(stop - 1) : (k \in ex) # (k \in sk)

\* a record with a skipped index, an executed index and a break above both
C35_Witness ==
  \E s \in DOMAIN inv :
    LET v == inv[s] IN
    /\ Done(v) /\ Delivered(v) /\ ~v.out.trivial
    /\ v.out.skipped = <<0>> /\ Executed(v) = {1} /\ v.out.breakAt = 2

(***************************************************************************)
(* The first task run after skipped indices                                *)
(***************************************************************************)
\* C36: with the default resultWrapper the call arguments reach a task only
\* at index 0: a task at an index above 0 is called with the one argument
\* `last`, so that the first task run after index 0 was skipped is called
\* with the single argument undefined and not with the call arguments
C36_ArgumentsOnlyAtIndexZero ==
  \A s \in DOMAIN inv :
    LET v == inv[s] IN
    opts[s[1]].resultWrapper = "default" =>
      \A n \in DOMAIN v.log :
        LET e == v.log[n] IN
        e.f = "task" =>
          /\ e.i = 0 => e.args = v.args
          /\ e.i > 0 => e.args = <<e.last>>
          /\ e.i > 0 /\ TasksBefore(v, n) = {} =>
               /\ 0 \in Among(v.skipped)
               /\ e.args = <<Undefined>>
               /\ e.args # v.args

\* a call with the argument 1 whose index 0 was skipped and whose task at
\* index 1 was called
C36_Witness ==
  \E s \in DOMAIN inv :
    LET v == inv[s] IN
    /\ opts[s[1]].resultWrapper = "default"
    /\ v.args = <<Num(1)>> /\ Done(v) /\ Delivered(v)
    /\ v.out.skipped = <<0>>
    /\ \E e \in TaskCalls(v) : e.i = 1 /\ e.args = <<Undefined>>

(***************************************************************************)
(* The list after a failure                                                *)
(***************************************************************************)
\* invocation v has ended with a failure
HasFailed(v) == Done(v) /\ ~Delivered(v)

\* the resultWrapper of invocation v of callable c has appended x => x * 2
\* to the list (of one task) it was called over
AppendedBy(c, v) ==
  /\ opts[c].resultWrapper = "push"
  /\ Len(v.tasks0) = 1
  /\ Calls(v, "wrap", 0) # {}

\* the list a call over list leaves when its resultWrapper has appended
WithAppended(c, list) == Append(list, Task("dbl", opts[c].mode))

\* invocation w has visited every index of the list it was called over,
\* up to the index at which it ended
Iterated(w) ==
  \A k \in 0..(Len(w.tasks0) - 1) : k <= w.i => k \in Visited(w)

\* C37: a failing invocation is not rolled back: when an invocation fails
\* the list is left as its hooks have left it, the tasks they appended
\* before the failure included, and the next invocation of the callable is
\* made over that list and iterates over the appended tasks
C37_FailureKeepsAppended ==
  [][\A s \in DOMAIN inv :
       LET c == s[1]
           v == inv[s]
           w == inv'[s]
       IN /\ EngineStep(s) /\ HasFailed(w) =>
               /\ tasks'[c] = AsHooksLeaveIt(s)
               /\ AppendedBy(c, w) => tasks'[c] = WithAppended(c, w.tasks0)
          /\ HasFailed(v) /\ AppendedBy(c, v) /\ CallStep(s) =>
               w.tasks0 = WithAppended(c, v.tasks0)
          /\ EngineStep(s) /\ Done(w) /\ ~w.out.trivial => Iterated(w)]_vars

\* an invocation has failed at index 1, at the task its resultWrapper had
\* appended or at a hook called for it, and the list still has that task
C37_Witness ==
  \E s \in DOMAIN inv :
    LET v == inv[s] IN
    /\ HasFailed(v) /\ AppendedBy(s[1], v)
    /\ v.i = 1
    /\ tasks[s[1]] = WithAppended(s[1], v.tasks0)

(***************************************************************************)
(* The task of an iteration                                                *)
(***************************************************************************)
\* the calls that this step adds to the log of slot s
NewCalls(s) ==
  LET from == IF CallStep(s) THEN 0 ELSE Len(inv[s].log)
  IN {inv'[s].log[n] : n \in (from + 1)..Len(inv'[s].log)}

\* C38: in the async engine the task of index i is read from the list
\* once, when iteration i starts and before resultWrapper is called: the
\* three hooks are handed that task and it is the task that is called,
\* also when the element at index i is replaced or removed while the hooks
\* of iteration i are pending; the length of the list is read again only
\* at the next loop test
C38_TaskReadOncePerIndex ==
  [][\A s \in AsyncSlots :
       LET w == inv'[s] IN
       EngineStep(s) =>
         /\ \A e \in NewCalls(s) :
              e.f = "wrap" =>
                /\ e.i < Len(tasks[s[1]])
                /\ e.task = tasks[s[1]][e.i + 1]
         /\ \A e, g \in Events(w) : e.i = g.i => e.task = g.task
         /\ \A e \in TaskCalls(w) :
              /\ e.ok = TaskBody(e.task, e.args).ok
              /\ e.ret = TaskBody(e.task, e.args).val
         /\ Done(w) /\ Delivered(w) /\ ~w.out.trivial /\ w.out.breakAt = -1 =>
              w.i >= Len(tasks[s[1]])]_vars

\* the task of the current index has been called and the invocation is
\* suspended on it, while the list has another element at that index, or
\* none: the element was replaced or removed while a hook was pending
C38_Witness ==
  \E s \in AsyncSlots :
    LET v == inv[s] IN
    /\ v.awaiting /\ v.pc = "task"
    /\ Calls(v, "task", v.i) # {}
    /\ \/ v.i >= Len(tasks[s[1]])
       \/ tasks[s[1]][v.i + 1] # v.task

====
